---- MODULE Spec2Model ----
(***************************************************************************)
(* A model of the HalluciNOT verification pipeline:                         *)
(*   ClaimExtractor / ClaimMerger   (claim_extraction/extractor.py)         *)
(*   SourceMapper                   (source_mapping/mapper.py)              *)
(*   ConfidenceScorer               (confidence/scorer.py)                  *)
(*   VerificationProcessor.verify   (processor.py)                          *)
(*   Claim, DocumentStore, ...      (utils/common.py)                       *)
(*                                                                         *)
(* Text is a sequence of one-character strings; offsets are Python offsets  *)
(* (0-based, half-open).  Floating-point scores are exact rationals <<n,d>>.*)
(***************************************************************************)
EXTENDS Integers, Sequences, FiniteSets, TLC

VARIABLES
    pc,      \* the operation that ran last
    cfg,     \* the configuration of the components
    nlp,     \* ClaimExtractor.nlp: None, or what the loaded backend returns for text
    text,    \* the response text
    store,   \* DocumentStore._chunks
    claims,  \* the claim list being processed
    log,     \* one record per operation run so far: its name, input and output
    uuids,   \* the number of claim ids generated so far
    interventions  \* VerificationResult.interventions

vars == <<pc, cfg, nlp, text, store, claims, log, uuids, interventions>>

(***************************************************************************)
(* Characters and Python string operations                                 *)
(***************************************************************************)
UpperSeq == <<"A","B","C","D","E","F","G","H","I","J","K","L","M",
              "N","O","P","Q","R","S","T","U","V","W","X","Y","Z">>
LowerSeq == <<"a","b","c","d","e","f","g","h","i","j","k","l","m",
              "n","o","p","q","r","s","t","u","v","w","x","y","z">>
UpperSet == {UpperSeq[i] : i \in DOMAIN UpperSeq}
LowerSet == {LowerSeq[i] : i \in DOMAIN LowerSeq}
DigitSet == {"0","1","2","3","4","5","6","7","8","9"}
SpaceSet == {" ", "\n", "\t"}
WordSet  == UpperSet \cup LowerSet \cup DigitSet \cup {"_"}

\* str.lower() on one character
LowerChar(c) ==
    IF c \in UpperSet THEN LowerSeq[CHOOSE i \in DOMAIN UpperSeq : UpperSeq[i] = c]
    ELSE c

\* str.lower()
LowerStr(t) == [i \in DOMAIN t |-> LowerChar(t[i])]

\* t[a:b] for 0 <= a, b (Python clips b to len(t); an empty range is "")
Slice(t, a, b) ==
    LET hi == IF b > Len(t) THEN Len(t) ELSE b
    IN  IF a >= hi THEN <<>> ELSE SubSeq(t, a + 1, hi)

\* str.strip()
Strip(t) ==
    LET ns == {i \in DOMAIN t : t[i] \notin SpaceSet}
    IN  IF ns = {} THEN <<>>
        ELSE LET lo == CHOOSE i \in ns : \A j \in ns : i <= j
                 hi == CHOOSE i \in ns : \A j \in ns : j <= i
             IN SubSeq(t, lo, hi)

\* t.startswith(p) at offset k
MatchAt(t, p, k) ==
    /\ k + Len(p) <= Len(t)
    /\ \A i \in DOMAIN p : t[k + i] = p[i]

\* str.find(p): lowest offset where p occurs, -1 when it does not
Find(t, p) ==
    LET hits == {k \in 0..Len(t) : MatchAt(t, p, k)}
    IN  IF hits = {} THEN 0 - 1
        ELSE CHOOSE k \in hits : \A j \in hits : k <= j

\* "p in t"
Contains(t, p) == \E k \in 0..Len(t) : MatchAt(t, p, k)

\* t.endswith(p)
EndsWith(t, p) == Len(p) <= Len(t) /\ MatchAt(t, p, Len(t) - Len(p))

\* max(S) and min(S) of a non-empty set of integers
Max(S) == CHOOSE x \in S : \A y \in S : y <= x
Min(S) == CHOOSE x \in S : \A y \in S : x <= y

(***************************************************************************)
(* Regular expressions (module re).  A pattern is a tree of nodes; Ends     *)
(* gives every offset at which a match starting at offset p can end.        *)
(***************************************************************************)
Node(k, c, xs, lo, hi) == [k |-> k, c |-> c, xs |-> xs, lo |-> lo, hi |-> hi]
Lit(c)        == Node("lit", c, <<>>, 0, 0)         \* a literal character
Cls(n)        == Node("cls", n, <<>>, 0, 0)         \* \d \w \s [A-Z] [a-z] [A-Za-z] .
WB            == Node("wb", "", <<>>, 0, 0)         \* \b
Cat(xs)       == Node("seq", "", xs, 0, 0)          \* concatenation
Alt(xs)       == Node("alt", "", xs, 0, 0)          \* a|b|...
Rep(r, lo, hi) == Node("rep", "", <<r>>, lo, hi)    \* r{lo,hi}; hi = -1: unbounded
Opt(r)        == Rep(r, 0, 1)                       \* r?
Plus(r)       == Rep(r, 1, 0 - 1)                   \* r+
Star(r)       == Rep(r, 0, 0 - 1)                   \* r*
Str(s)        == Cat([i \in DOMAIN s |-> Lit(s[i])]) \* a literal string

InClass(c, n) ==
    CASE n = "d"  -> c \in DigitSet
      [] n = "w"  -> c \in WordSet
      [] n = "s"  -> c \in SpaceSet
      [] n = "U"  -> c \in UpperSet
      [] n = "L"  -> c \in LowerSet
      [] n = "a"  -> c \in UpperSet \cup LowerSet
      [] n = "."  -> c # "\n"
      [] OTHER    -> FALSE

\* \b at offset p: exactly one side is a word character
WordBoundary(t, p) ==
    LET before == p >= 1 /\ t[p] \in WordSet
        after  == p < Len(t) /\ t[p + 1] \in WordSet
    IN  before # after

RECURSIVE Ends(_, _, _, _)
RECURSIVE EndsRun(_, _, _, _, _, _)
RECURSIVE EndsCat(_, _, _, _, _)
RECURSIVE EndsRep(_, _, _, _, _, _)
Ends(r, t, p, ic) ==
    CASE r.k = "lit" ->
           IF p < Len(t) /\ (IF ic THEN LowerChar(t[p + 1]) = LowerChar(r.c)
                                   ELSE t[p + 1] = r.c)
           THEN {p + 1} ELSE {}
      [] r.k = "cls" -> IF p < Len(t) /\ InClass(t[p + 1], r.c) THEN {p + 1} ELSE {}
      [] r.k = "wb"  -> IF WordBoundary(t, p) THEN {p} ELSE {}
      [] r.k = "seq" -> EndsCat(r.xs, 1, t, {p}, ic)
      [] r.k = "alt" -> UNION {Ends(r.xs[i], t, p, ic) : i \in DOMAIN r.xs}
      [] r.k = "rep" -> IF r.xs[1].k \in {"lit", "cls"}
                        THEN EndsRun(r.xs[1], r.lo, r.hi, t, p, ic)
                        ELSE EndsRep(r.xs[1], r.lo, r.hi, t, {p}, ic)

\* a repeated single character or class: the run of matching characters at p
EndsRun(r, lo, hi, t, p, ic) ==
    LET bad == {j \in p..(Len(t) - 1) : Ends(r, t, j, ic) = {}}
        run == IF bad = {} THEN Len(t) - p ELSE Min(bad) - p
        most == IF hi >= 0 /\ hi < run THEN hi ELSE run
    IN  {p + k : k \in lo..most}

EndsCat(xs, i, t, ps, ic) ==
    IF i > Len(xs) \/ ps = {} THEN ps
    ELSE EndsCat(xs, i + 1, t, UNION {Ends(xs[i], t, p, ic) : p \in ps}, ic)

\* ps: offsets reached so far; lo/hi: repetitions still required/allowed
EndsRep(r, lo, hi, t, ps, ic) ==
    IF ps = {} \/ hi = 0 THEN (IF lo > 0 THEN {} ELSE ps)
    ELSE LET step == UNION {Ends(r, t, p, ic) : p \in ps} \ (IF lo > 0 THEN {} ELSE ps)
             rest == EndsRep(r, IF lo > 0 THEN lo - 1 ELSE 0,
                             IF hi > 0 THEN hi - 1 ELSE hi, t, step, ic)
         IN  IF lo > 0 THEN rest ELSE ps \cup rest

\* re.search(r, t) is not None
Search(r, t)  == \E p \in 0..Len(t) : Ends(r, t, p, FALSE) # {}
\* re.search(r, t, re.IGNORECASE) is not None
SearchI(r, t) == \E p \in 0..Len(t) : Ends(r, t, p, TRUE) # {}

\* re.finditer(r, t): the (start, end) spans of the successive leftmost matches.
\* Every pattern it is used with is greedy without a shorter preferred
\* alternative, so the match taken at a start offset is the longest one.
RECURSIVE FindFrom(_, _, _, _, _)
RECURSIVE FindNext(_, _, _, _, _, _)
FindIter(r, t, from, ic) ==
    FindFrom(r, t, from, ic, {p \in from..Len(t) : Ends(r, t, p, ic) # {}})

\* the matches from offset from on, starts being the offsets a match begins at
FindFrom(r, t, from, ic, starts) ==
    IF \A p \in starts : p < from THEN <<>>
    ELSE FindNext(r, t, ic, starts, Min({p \in starts : p >= from}),
                  Max(Ends(r, t, Min({p \in starts : p >= from}), ic)))

\* the match from s to e, and the search resumed behind it
FindNext(r, t, ic, starts, s, e) ==
    <<[start |-> s, end |-> e]>> \o
    FindFrom(r, t, IF e > s THEN e ELSE s + 1, ic, starts)

(***************************************************************************)
(* ClaimExtractor (claim_extraction/extractor.py)                          *)
(***************************************************************************)
ClaimTypes == {"numerical", "temporal", "entity", "causal", "comparative",
               "definitional", "citation", "other"}

\* a float: an exact rational <<numerator, denominator>>, denominator > 0
Zero == <<0, 1>>
One  == <<1, 1>>

\* Claim(id, text, type, start_idx, end_idx, entities) with the dataclass defaults
Claim(id, txt, type, start_idx, end_idx, entities) ==
    [id |-> id, text |-> txt, type |-> type,
     start_idx |-> start_idx, end_idx |-> end_idx, entities |-> entities,
     sources |-> <<>>, confidence_score |-> Zero, verification_notes |-> ""]

\* the split pattern (?<!\w\.\w.)(?<![A-Z][a-z]\.)(?<=\.|\?|\!)\s matches t[i]
SplitPoint(t, i) ==
    /\ t[i] \in SpaceSet
    /\ i >= 2 /\ t[i - 1] \in {".", "?", "!"}
    /\ ~(i >= 5 /\ t[i - 4] \in WordSet /\ t[i - 3] = "." /\ t[i - 2] \in WordSet
                /\ t[i - 1] # "\n")
    /\ ~(i >= 4 /\ t[i - 3] \in UpperSet /\ t[i - 2] \in LowerSet /\ t[i - 1] = ".")

\* re.split(pattern, t): the pieces between the matched separators, in order
RECURSIVE SplitFrom(_, _)
SplitFrom(t, from) ==
    LET cuts == {i \in from..Len(t) : SplitPoint(t, i)}
    IN  IF cuts = {} THEN <<Slice(t, from - 1, Len(t))>>
        ELSE LET c == Min(cuts)
             IN  <<Slice(t, from - 1, c - 1)>> \o SplitFrom(t, c + 1)

SplitSentences(t) == SplitFrom(t, 1)

\* text.split()[0].lower() if text.split() else ""
FirstWordLower(t) ==
    LET s    == Strip(t)
        stop == {i \in DOMAIN s : s[i] \in SpaceSet}
    IN  IF s = <<>> THEN <<>>
        ELSE LowerStr(IF stop = {} THEN s ELSE SubSeq(s, 1, Min(stop) - 1))

Imperatives == {<<"g","o">>, <<"d","o">>, <<"m","a","k","e">>, <<"t","r","y">>, <<"u","s","e">>, <<"f","i","n","d">>, <<"g","e","t">>, <<"s","e","e">>,
                <<"l","e","t">>, <<"t","a","k","e">>}
FirstPerson == {<<"i"," ">>, <<"w","e"," ">>, <<"m","y"," ">>, <<"o","u","r"," ">>}
FactPatterns == {<<" ","i","s"," ">>, <<" ","a","r","e"," ">>, <<" ","w","a","s"," ">>, <<" ","w","e","r","e"," ">>, <<" ","h","a","s"," ">>, <<" ","h","a","v","e"," ">>,
                 <<" ","c","o","n","t","a","i","n","s"," ">>, <<" ","i","n","c","l","u","d","e","s"," ">>, <<" ","c","o","n","s","i","s","t","s"," ">>, <<" ","c","o","m","p","r","i","s","e","s"," ">>,
                 <<" ","e","q","u","a","l","s"," ">>, <<" ","m","e","a","n","s"," ">>, <<" ","i","n","v","o","l","v","e","s"," ">>, <<" ","o","c","c","u","r","s"," ">>, <<" ","h","a","p","p","e","n","s"," ">>}

\* \b(in|on|during|since) (the )?\d{4}\b
DateYearPattern ==
    Cat(<<WB, Alt(<<Str(<<"i","n">>), Str(<<"o","n">>), Str(<<"d","u","r","i","n","g">>), Str(<<"s","i","n","c","e">>)>>), Lit(" "),
          Opt(Str(<<"t","h","e"," ">>)), Rep(Cls("d"), 4, 4), WB>>)
\* \b\d{1,2}/\d{1,2}/\d{2,4}\b
DateSlashPattern ==
    Cat(<<WB, Rep(Cls("d"), 1, 2), Lit("/"), Rep(Cls("d"), 1, 2), Lit("/"),
          Rep(Cls("d"), 2, 4), WB>>)
\* \b[A-Z][a-z]+\b
ProperNounPattern == Cat(<<WB, Cls("U"), Plus(Cls("L")), WB>>)

_is_factual_claim_text(t) ==
    IF EndsWith(t, <<"?">>) THEN FALSE
    ELSE IF FirstWordLower(t) \in Imperatives THEN FALSE
    ELSE IF \E p \in FirstPerson : MatchAt(LowerStr(t), p, 0) THEN FALSE
    ELSE IF \E p \in FactPatterns : Contains(<<" ">> \o LowerStr(t) \o <<" ">>, p) THEN TRUE
    ELSE LET has_number       == Search(Cls("d"), t)
             has_date_pattern == Search(Alt(<<DateYearPattern, DateSlashPattern>>), t)
             has_proper_noun  == Search(ProperNounPattern, t)
         IN  has_number \/ has_date_pattern \/ has_proper_noun

CausalMarkers == {<<"b","e","c","a","u","s","e">>, <<"d","u","e"," ","t","o">>, <<"a","s"," ","a"," ","r","e","s","u","l","t">>, <<"t","h","e","r","e","f","o","r","e">>, <<"t","h","u","s">>,
                  <<"c","o","n","s","e","q","u","e","n","t","l","y">>, <<"l","e","a","d","s"," ","t","o">>, <<"c","a","u","s","e","s">>}
ComparativeMarkers == {<<"m","o","r","e">>, <<"l","e","s","s">>, <<"g","r","e","a","t","e","r">>, <<"f","e","w","e","r">>, <<"b","e","t","t","e","r">>, <<"w","o","r","s","e">>,
                       <<"h","i","g","h","e","r">>, <<"l","o","w","e","r">>, <<"c","o","m","p","a","r","e","d"," ","t","o">>}
CitationMarkers == {<<"a","c","c","o","r","d","i","n","g"," ","t","o">>, <<"c","i","t","e","d"," ","b","y">>, <<"a","s"," ","s","t","a","t","e","d"," ","i","n">>, <<"a","s"," ","r","e","p","o","r","t","e","d"," ","b","y">>,
                    <<"a","s"," ","s","h","o","w","n"," ","b","y">>}
\* \b[A-Za-z]+ (is|are) (a|an|the) [A-Za-z]+\b
DefPattern ==
    Cat(<<WB, Plus(Cls("a")), Lit(" "), Alt(<<Str(<<"i","s">>), Str(<<"a","r","e">>)>>), Lit(" "),
          Alt(<<Str(<<"a">>), Str(<<"a","n">>), Str(<<"t","h","e">>)>>), Lit(" "), Plus(Cls("a")), WB>>)
\* \b\d+(\.\d+)?\b
NumberWordPattern == Cat(<<WB, Plus(Cls("d")), Opt(Cat(<<Lit("."), Plus(Cls("d"))>>)), WB>>)
\* \b(zero|one|two|three|four|five|six|seven|eight|nine|ten)\b
NumeralPattern ==
    Cat(<<WB, Alt(<<Str(<<"z","e","r","o">>), Str(<<"o","n","e">>), Str(<<"t","w","o">>), Str(<<"t","h","r","e","e">>), Str(<<"f","o","u","r">>),
                    Str(<<"f","i","v","e">>), Str(<<"s","i","x">>), Str(<<"s","e","v","e","n">>), Str(<<"e","i","g","h","t">>), Str(<<"n","i","n","e">>),
                    Str(<<"t","e","n">>)>>), WB>>)
\* \$\d+|\d+ dollars|\d+ euros|\d+ yen
MoneyPattern ==
    Alt(<<Cat(<<Lit("$"), Plus(Cls("d"))>>),
          Cat(<<Plus(Cls("d")), Str(<<" ","d","o","l","l","a","r","s">>)>>),
          Cat(<<Plus(Cls("d")), Str(<<" ","e","u","r","o","s">>)>>),
          Cat(<<Plus(Cls("d")), Str(<<" ","y","e","n">>)>>)>>)
\* \d+(\.\d+)?( )?%|\d+( )?(percent|percentage)
PercentPattern ==
    Alt(<<Cat(<<Plus(Cls("d")), Opt(Cat(<<Lit("."), Plus(Cls("d"))>>)), Opt(Lit(" ")),
                Lit("%")>>),
          Cat(<<Plus(Cls("d")), Opt(Lit(" ")),
                Alt(<<Str(<<"p","e","r","c","e","n","t">>), Str(<<"p","e","r","c","e","n","t","a","g","e">>)>>)>>)>>)
\* \d+( )?(kg|mb|gb|tb|mm|cm|m|km|inch|inches|feet|foot|yards|miles)
QuantityPattern ==
    Cat(<<Plus(Cls("d")), Opt(Lit(" ")),
          Alt(<<Str(<<"k","g">>), Str(<<"m","b">>), Str(<<"g","b">>), Str(<<"t","b">>), Str(<<"m","m">>), Str(<<"c","m">>),
                Str(<<"m">>), Str(<<"k","m">>), Str(<<"i","n","c","h">>), Str(<<"i","n","c","h","e","s">>), Str(<<"f","e","e","t">>),
                Str(<<"f","o","o","t">>), Str(<<"y","a","r","d","s">>), Str(<<"m","i","l","e","s">>)>>)>>)
\* \b(January|...|December)\b
MonthPattern ==
    Cat(<<WB, Alt(<<Str(<<"J","a","n","u","a","r","y">>), Str(<<"F","e","b","r","u","a","r","y">>), Str(<<"M","a","r","c","h">>), Str(<<"A","p","r","i","l">>),
                    Str(<<"M","a","y">>), Str(<<"J","u","n","e">>), Str(<<"J","u","l","y">>), Str(<<"A","u","g","u","s","t">>),
                    Str(<<"S","e","p","t","e","m","b","e","r">>), Str(<<"O","c","t","o","b","e","r">>), Str(<<"N","o","v","e","m","b","e","r">>),
                    Str(<<"D","e","c","e","m","b","e","r">>)>>), WB>>)
\* \b\d{1,2}(st|nd|rd|th)?\b
OrdinalPattern ==
    Cat(<<WB, Rep(Cls("d"), 1, 2),
          Opt(Alt(<<Str(<<"s","t">>), Str(<<"n","d">>), Str(<<"r","d">>), Str(<<"t","h">>)>>)), WB>>)
\* \b(yesterday|today|tomorrow)\b
DayWordPattern ==
    Cat(<<WB, Alt(<<Str(<<"y","e","s","t","e","r","d","a","y">>), Str(<<"t","o","d","a","y">>), Str(<<"t","o","m","o","r","r","o","w">>)>>), WB>>)
\* \b(year|month|week|day|hour|minute|century|decade)\b
PeriodPattern ==
    Cat(<<WB, Alt(<<Str(<<"y","e","a","r">>), Str(<<"m","o","n","t","h">>), Str(<<"w","e","e","k">>), Str(<<"d","a","y">>), Str(<<"h","o","u","r">>),
                    Str(<<"m","i","n","u","t","e">>), Str(<<"c","e","n","t","u","r","y">>), Str(<<"d","e","c","a","d","e">>)>>), WB>>)
\* \b[A-Z][a-z]+ (is|was|has|have|will)\b
EntityVerbPattern ==
    Cat(<<WB, Cls("U"), Plus(Cls("L")), Lit(" "),
          Alt(<<Str(<<"i","s">>), Str(<<"w","a","s">>), Str(<<"h","a","s">>), Str(<<"h","a","v","e">>), Str(<<"w","i","l","l">>)>>), WB>>)

\* the classification shared by both strategies once numbers, dates and named
\* entities are ruled out: causal, comparative, definitional, citation, other
MarkerType(lower, is_def) ==
    IF \E m \in CausalMarkers : Contains(lower, m) THEN "causal"
    ELSE IF \E m \in ComparativeMarkers : Contains(lower, m) THEN "comparative"
    ELSE IF is_def THEN "definitional"
    ELSE IF \E m \in CitationMarkers : Contains(lower, m) THEN "citation"
    ELSE "other"

_determine_claim_type_text(t) ==
    LET text_lower == LowerStr(t)
    IN  IF /\ Search(NumberWordPattern, t) \/ Search(NumeralPattern, text_lower)
           /\ \/ Search(MoneyPattern, text_lower)
              \/ Search(PercentPattern, text_lower)
              \/ Search(QuantityPattern, text_lower)
        THEN "numerical"
        ELSE IF SearchI(Alt(<<DateYearPattern, DateSlashPattern, MonthPattern,
                              OrdinalPattern, DayWordPattern, PeriodPattern>>), t)
        THEN "temporal"
        ELSE IF Search(EntityVerbPattern, t) THEN "entity"
        ELSE MarkerType(text_lower, Search(DefPattern, t))

\* _determine_claim_type(span): like_num / MONEY / QUANTITY / PERCENT / CARDINAL,
\* DATE / TIME and the named entities are the backend's tags of the span
_determine_claim_type(span_text, tags) ==
    LET lower == LowerStr(span_text)
    IN  IF tags.num THEN "numerical"
        ELSE IF tags.date \/ Search(Alt(<<DateYearPattern, DateSlashPattern>>), lower)
        THEN "temporal"
        ELSE IF tags.ent THEN "entity"
        ELSE MarkerType(lower, (Contains(lower, <<" ","i","s"," ">>) \/ Contains(lower, <<" ","a","r","e"," ">>))
                               /\ Search(DefPattern, lower))

\* \b[A-Z][a-zA-Z]+ (?:[A-Z][a-zA-Z]+\s?)*
ProperNounEntityPattern ==
    Cat(<<WB, Cls("U"), Plus(Cls("a")), Lit(" "),
          Star(Cat(<<Cls("U"), Plus(Cls("a")), Opt(Cls("s"))>>))>>)
\* \b(January|...|December) \d{1,2}(st|nd|rd|th)?, \d{4}\b
LongDatePattern ==
    Cat(<<MonthPattern, Lit(" "), Rep(Cls("d"), 1, 2),
          Opt(Alt(<<Str(<<"s","t">>), Str(<<"n","d">>), Str(<<"r","d">>), Str(<<"t","h">>)>>)), Str(<<","," ">>),
          Rep(Cls("d"), 4, 4), WB>>)
\* \$\d+(?:,\d{3})*(?:\.\d{2})?|\d+(?:,\d{3})*(?:\.\d{2})? (dollars|euros|pounds)
Thousands == Star(Cat(<<Lit(","), Rep(Cls("d"), 3, 3)>>))
Cents     == Opt(Cat(<<Lit("."), Rep(Cls("d"), 2, 2)>>))
MoneyEntityPattern ==
    Alt(<<Cat(<<Lit("$"), Plus(Cls("d")), Thousands, Cents>>),
          Cat(<<Plus(Cls("d")), Thousands, Cents, Lit(" "),
                Alt(<<Str(<<"d","o","l","l","a","r","s">>), Str(<<"e","u","r","o","s">>), Str(<<"p","o","u","n","d","s">>)>>)>>)>>)

\* the entities of one finditer loop: match.group(0), stripped when strip is set
EntitiesOf(t, ms, label, strip) ==
    [i \in DOMAIN ms |->
        [text  |-> IF strip THEN Strip(Slice(t, ms[i].start, ms[i].end))
                   ELSE Slice(t, ms[i].start, ms[i].end),
         label |-> label, start |-> ms[i].start, end |-> ms[i].end]]

_extract_entities_rule_based(t) ==
    EntitiesOf(t, FindIter(ProperNounEntityPattern, t, 0, FALSE), "ENTITY", TRUE)
    \o EntitiesOf(t, FindIter(DateSlashPattern, t, 0, TRUE), "DATE", FALSE)
    \o EntitiesOf(t, FindIter(LongDatePattern, t, 0, TRUE), "DATE", FALSE)
    \o EntitiesOf(t, FindIter(MoneyEntityPattern, t, 0, FALSE), "MONEY", FALSE)

\* the position search of the rule-based loop: exact, then case-insensitive
LocateSentence(t, clean_sentence) ==
    LET exact == Find(t, clean_sentence)
    IN  IF exact # 0 - 1 THEN exact
        ELSE Find(LowerStr(t), LowerStr(clean_sentence))

\* the body of the for loop of _extract_claims_rule_based, over sentences[i..]:
\* acc is the list built so far, id the next fresh claim id
RECURSIVE RuleBasedLoop(_, _, _, _, _, _)
RuleBasedLoop(c, t, sentences, i, acc, id) ==
    IF i > Len(sentences) THEN acc
    ELSE LET clean_sentence == Strip(sentences[i])
             start_idx      == LocateSentence(t, clean_sentence)
             end_idx        == start_idx + Len(clean_sentence)
             skip == \/ Len(clean_sentence) < c.min_claim_length
                     \/ Len(clean_sentence) > c.max_claim_length
                     \/ ~_is_factual_claim_text(clean_sentence)
                     \/ start_idx = 0 - 1
         IN  IF skip THEN RuleBasedLoop(c, t, sentences, i + 1, acc, id)
             ELSE RuleBasedLoop(c, t, sentences, i + 1,
                    Append(acc, Claim(id, clean_sentence,
                                      _determine_claim_type_text(clean_sentence),
                                      start_idx, end_idx,
                                      IF c.enable_entity_extraction
                                      THEN _extract_entities_rule_based(clean_sentence)
                                      ELSE <<>>)),
                    id + 1)

\* a variant that searches the stripped text for the sentences
_extract_claims_rule_based_stripped(c, t, id) ==
    RuleBasedLoop(c, Strip(t), SplitSentences(t), 1, <<>>, id)

_extract_claims_rule_based(c, t, id) ==
    RuleBasedLoop(c, t, SplitSentences(t), 1, <<>>, id)

(***************************************************************************)
(* The linguistic strategy.  spaCy is not part of the repository: what     *)
(* nlp(text) returns is an input.  An analysed span carries its character   *)
(* offsets (span.text = text[start_char:end_char]) and the backend's tags:  *)
(*   pos_ok  _is_factual_claim's part-of-speech conditions hold             *)
(*   num     a token is like_num / MONEY / QUANTITY / PERCENT / CARDINAL    *)
(*   date    a token is DATE / TIME                                         *)
(*   ents    span.ents, with character offsets in the text                  *)
(***************************************************************************)
None == [loaded |-> FALSE, sents |-> <<>>, windows |-> <<>>]
NamedEntityLabels == {"PERSON", "ORG", "GPE", "LOC", "PRODUCT"}

SpanText(t, span) == Slice(t, span.start_char, span.end_char)

\* _is_factual_claim(span)
_is_factual_claim(t, span) ==
    IF EndsWith(SpanText(t, span), <<"?">>) THEN FALSE ELSE span.pos_ok

\* _extract_entities(span)
_extract_entities(t, span) ==
    [i \in DOMAIN span.ents |->
        [text  |-> Slice(t, span.ents[i].start_char, span.ents[i].end_char),
         label |-> span.ents[i].label,
         start |-> span.ents[i].start_char - span.start_char,
         end   |-> span.ents[i].end_char - span.start_char]]

\* the body of the for loop of _extract_claims_spacy, over potential_claims[i..]
RECURSIVE SpacyLoop(_, _, _, _, _, _)
SpacyLoop(c, t, potential_claims, i, acc, id) ==
    IF i > Len(potential_claims) THEN acc
    ELSE LET span == potential_claims[i]
             skip == \/ Len(SpanText(t, span)) < c.min_claim_length
                     \/ Len(SpanText(t, span)) > c.max_claim_length
                     \/ ~_is_factual_claim(t, span)
             tags == [num |-> span.num, date |-> span.date,
                      ent |-> \E k \in DOMAIN span.ents :
                                 span.ents[k].label \in NamedEntityLabels]
         IN  IF skip THEN SpacyLoop(c, t, potential_claims, i + 1, acc, id)
             ELSE SpacyLoop(c, t, potential_claims, i + 1,
                    Append(acc, Claim(id, Strip(SpanText(t, span)),
                                      _determine_claim_type(SpanText(t, span), tags),
                                      span.start_char, span.end_char,
                                      IF c.enable_entity_extraction
                                      THEN _extract_entities(t, span) ELSE <<>>)),
                    id + 1)

\* doc.sents, or the sliding windows doc[i:i+20]
_extract_claims_spacy(c, doc, t, id) ==
    SpacyLoop(c, t, IF c.use_sentence_boundaries THEN doc.sents ELSE doc.windows,
              1, <<>>, id)

\* extract_claims(text)
extract_claims(c, doc, t, id) ==
    IF c.use_spacy /\ doc.loaded
    THEN _extract_claims_spacy(c, doc, t, id)
    ELSE _extract_claims_rule_based(c, t, id)

(***************************************************************************)
(* Inputs: response texts, configurations, backend analyses                *)
(***************************************************************************)
MaxPieces      == 3   \* rule-based strategy: a text is at most this many pieces
MaxSpacyPieces == 2   \* linguistic strategy: a text is at most this many pieces
MaxSents       == 2   \* the backend splits a text into at most this many sentences

Pieces == {<<"1",".">>, <<"A","l">>, <<"x"," ","i","s">>, <<"g","o"," ">>, <<"I"," ">>, <<".">>, <<"?">>, <<" ">>}

\* the pieces of the texts given to the linguistic strategy
SpacyPieces == {<<"1",".">>, <<"A","l">>, <<"?">>, <<" ">>}

\* the texts made of at most n pieces
RECURSIVE Texts(_, _)
Texts(pieces, n) ==
    IF n = 0 THEN {<<>>}
    ELSE LET shorter == Texts(pieces, n - 1)
         IN  shorter \cup {t \o p : t \in shorter, p \in pieces}

\* the constructor defaults of ConfidenceScorer.claim_type_weights
DefaultWeights ==
    [ty \in ClaimTypes |->
        CASE ty \in {"numerical", "citation"}     -> <<6, 5>>
          [] ty \in {"temporal", "definitional"}  -> <<11, 10>>
          [] ty \in {"entity", "comparative"}     -> <<1, 1>>
          [] ty = "causal"                        -> <<9, 10>>
          [] OTHER                                -> <<4, 5>>]

\* the constructor defaults of ClaimExtractor, ClaimMerger, SourceMapper and
\* ConfidenceScorer
DefaultConfig ==
    [min_claim_length |-> 5, max_claim_length |-> 200, use_spacy |-> TRUE,
     use_sentence_boundaries |-> TRUE, enable_entity_extraction |-> TRUE,
     max_distance |-> 20, merge_same_type |-> TRUE,
     min_alignment_score |-> <<3, 5>>, max_sources_per_claim |-> 3,
     use_semantic_search |-> TRUE, enable_entity_matching |-> TRUE,
     unsupported_claim_score |-> Zero, claim_type_weights |-> DefaultWeights]

ExtractorConfigs ==
    {DefaultConfig,
     [DefaultConfig EXCEPT !.min_claim_length = 2],
     [DefaultConfig EXCEPT !.min_claim_length = 2, !.use_sentence_boundaries = FALSE],
     [DefaultConfig EXCEPT !.use_spacy = FALSE],
     [DefaultConfig EXCEPT !.use_spacy = FALSE, !.min_claim_length = 2],
     [DefaultConfig EXCEPT !.use_spacy = FALSE, !.min_claim_length = 0,
                           !.max_claim_length = 4, !.enable_entity_extraction = FALSE]}

\* _initialize_components without the assignment self.use_spacy = False
_initialize_components_keep_flag(c, load_ok) == c

\* _initialize_components: the backend is loaded when use_spacy is set; a load
\* that raises leaves nlp = None and clears use_spacy
_initialize_components(c, load_ok) ==
    IF c.use_spacy /\ ~load_ok THEN [c EXCEPT !.use_spacy = FALSE] ELSE c

CharKind(ch) == IF ch \in WordSet THEN "w" ELSE IF ch \in SpaceSet THEN "s" ELSE "p"

\* the offsets at which one token ends and the next begins
TokenBounds(t) ==
    {0, Len(t)} \cup {p \in 1..(Len(t) - 1) : CharKind(t[p]) # CharKind(t[p + 1])}

RECURSIVE SortedSeq(_)
SortedSeq(S) == IF S = {} THEN <<>> ELSE <<Min(S)>> \o SortedSeq(S \ {Min(S)})

\* the span of the tokens between offsets a and b: the white space that trails
\* its last token is not part of it
TokenSpan(t, a, b) ==
    [start_char |-> a,
     end_char   |-> IF b - a > 1 /\ t[b] \in SpaceSet THEN b - 1 ELSE b]

\* the first word of a span, as a named entity
FirstWordEntity(t, sp) ==
    LET ws == {p \in (sp.start_char + 1)..sp.end_char : t[p] \in WordSet}
    IN  IF ws = {} THEN <<>>
        ELSE LET b == Min(ws)
                 e == Min({q \in b..sp.end_char :
                              q = sp.end_char \/ t[q + 1] \notin WordSet})
             IN  <<[start_char |-> b - 1, end_char |-> e, label |-> "ORG"]>>

\* the number of tokens of a span that are not white space
SolidTokens(t, sp) ==
    Cardinality({p \in (sp.start_char + 1)..sp.end_char :
                    /\ t[p] \notin SpaceSet
                    /\ p = sp.start_char + 1 \/ CharKind(t[p - 1]) # CharKind(t[p])})

\* the taggings of one span that the model distinguishes; a span can hold a
\* verb and a noun (pos_ok) only if it has two tokens that are not white space
Analyses(t, sp) ==
    LET base == [start_char |-> sp.start_char, end_char |-> sp.end_char,
                 pos_ok |-> TRUE, num |-> FALSE, date |-> FALSE, ents |-> <<>>]
    IN  {[base EXCEPT !.pos_ok = FALSE]} \cup
        (IF SolidTokens(t, sp) < 2 THEN {}
         ELSE {base, [base EXCEPT !.num = TRUE], [base EXCEPT !.date = TRUE],
               [base EXCEPT !.ents = FirstWordEntity(t, sp)]})

\* the analyses of a list of spans
RECURSIVE AnalysedSeqs(_, _)
AnalysedSeqs(t, spans) ==
    IF spans = <<>> THEN {<<>>}
    ELSE {<<a>> \o rest : a \in Analyses(t, Head(spans)),
                          rest \in AnalysedSeqs(t, Tail(spans))}

\* doc.sents: the tokens cut into at most MaxSents consecutive sentences
SentenceSplits(t) ==
    IF t = <<>> THEN {<<>>}
    ELSE LET inner == TokenBounds(t) \ {0, Len(t)}
         IN  {LET b == <<0>> \o SortedSeq(cuts) \o <<Len(t)>>
              IN  [j \in 1..(Len(b) - 1) |-> TokenSpan(t, b[j], b[j + 1])] :
                  cuts \in {C \in SUBSET inner : Cardinality(C) < MaxSents}}

\* what the loaded backend can return for t: its sentences, or (fewer than ten
\* tokens) the one sliding window doc[0:20]
SpacyDocs(c, t) ==
    IF c.use_sentence_boundaries
    THEN {[loaded |-> TRUE, sents |-> s, windows |-> <<>>] :
             s \in UNION {AnalysedSeqs(t, sp) : sp \in SentenceSplits(t)}}
    ELSE {[loaded |-> TRUE, sents |-> <<>>, windows |-> w] :
             w \in IF t = <<>> THEN {<<>>}
                   ELSE AnalysedSeqs(t, <<TokenSpan(t, 0, Len(t))>>)}

(***************************************************************************)
(* SpecExtract: a constructed ClaimExtractor runs extract_claims once       *)
(***************************************************************************)
InitExtract ==
    /\ pc = "constructed"
    /\ \E c \in ExtractorConfigs, load_ok \in BOOLEAN :
          /\ cfg = _initialize_components(c, load_ok)
          /\ IF c.use_spacy /\ load_ok
             THEN text \in Texts(SpacyPieces, MaxSpacyPieces) /\ nlp \in SpacyDocs(c, text)
             ELSE text \in Texts(Pieces, MaxPieces) /\ nlp = None
    /\ store = <<>>
    /\ claims = <<>>
    /\ log = <<>>
    /\ interventions = <<>>
    /\ uuids = 0

ExtractClaims ==
    /\ pc = "constructed"
    /\ claims' = extract_claims(cfg, nlp, text, uuids + 1)
    /\ uuids' = uuids + Len(claims')
    /\ log' = Append(log, [op |-> "extract_claims", out |-> claims'])
    /\ pc' = "extracted"
    /\ UNCHANGED <<cfg, nlp, text, store, interventions>>

NextExtract == ExtractClaims

SpecExtract == InitExtract /\ [][NextExtract]_vars

\* C1: every claim returned by extract_claims has 0 <= start_idx < end_idx <=
\* len(text), and its text is text[start_idx:end_idx] with the white space at
\* both ends removed.
C1_SpanValid ==
    pc = "extracted" =>
        \A i \in DOMAIN claims :
            /\ 0 <= claims[i].start_idx
            /\ claims[i].start_idx < claims[i].end_idx
            /\ claims[i].end_idx <= Len(text)
            /\ LET slice == Slice(text, claims[i].start_idx, claims[i].end_idx)
                   body  == {k \in DOMAIN slice : slice[k] \notin SpaceSet}
               IN  claims[i].text = IF body = {} THEN <<>>
                                    ELSE SubSeq(slice, Min(body), Max(body))

\* a rule-based run returned a claim that starts inside the text, after white
\* space that the sentence split left at the head of its sentence
C1_Witness ==
    /\ pc = "extracted" /\ ~nlp.loaded
    /\ \E i \in DOMAIN claims :
          /\ claims[i].start_idx > 0
          /\ \E j \in DOMAIN SplitSentences(text) :
                /\ SplitSentences(text)[j] # claims[i].text
                /\ Strip(SplitSentences(text)[j]) = claims[i].text

(***************************************************************************)
(* Floats as exact rationals <<n, d>> in lowest terms, d > 0               *)
(***************************************************************************)
Abs(x) == IF x < 0 THEN 0 - x ELSE x

RECURSIVE GCD(_, _)
GCD(a, b) == IF b = 0 THEN a ELSE GCD(b, a % b)

Rat(n, d) ==
    LET m == IF d < 0 THEN 0 - n ELSE n
        e == Abs(d)
        g == GCD(Abs(m), e)
    IN  <<m \div g, e \div g>>

\* numerator and denominator
Num(a) == Head(a)
Den(a) == Head(Tail(a))

RAdd(a, b) == Rat(Num(a) * Den(b) + Num(b) * Den(a), Den(a) * Den(b))
RSub(a, b) == Rat(Num(a) * Den(b) - Num(b) * Den(a), Den(a) * Den(b))
RMul(a, b) == Rat(Num(a) * Num(b), Den(a) * Den(b))
RLt(a, b)  == Num(a) * Den(b) < Num(b) * Den(a)
RLe(a, b)  == Num(a) * Den(b) <= Num(b) * Den(a)
RMin(a, b) == IF RLt(b, a) THEN b ELSE a      \* min(a, b)
RMax(a, b) == IF RLt(a, b) THEN b ELSE a      \* max(a, b)

(***************************************************************************)
(* ConfidenceScorer (confidence/scorer.py)                                 *)
(***************************************************************************)
\* SourceReference(chunk_id, document_id, text_excerpt, alignment_score, context)
SourceReference(chunk_id, document_id, text_excerpt, alignment_score) ==
    [chunk_id |-> chunk_id, document_id |-> document_id,
     text_excerpt |-> text_excerpt, alignment_score |-> alignment_score,
     context |-> <<>>]

\* max(...), min(...) and sum(...) over the alignment scores of a source list
RECURSIVE BestScore(_)
BestScore(ss) ==
    IF Len(ss) = 1 THEN ss[1].alignment_score
    ELSE RMax(ss[1].alignment_score, BestScore(Tail(ss)))
RECURSIVE WorstScore(_)
WorstScore(ss) ==
    IF Len(ss) = 1 THEN ss[1].alignment_score
    ELSE RMin(ss[1].alignment_score, WorstScore(Tail(ss)))
RECURSIVE SumScore(_)
SumScore(ss) ==
    IF ss = <<>> THEN Zero ELSE RAdd(ss[1].alignment_score, SumScore(Tail(ss)))

\* the agreement bonus given from a lowest alignment of 0.5 on
_calculate_base_confidence_bonus_from_half(claim) ==
    IF claim.sources = <<>> THEN Zero
    ELSE LET n               == Len(claim.sources)
             best_score      == BestScore(claim.sources)
             avg_score       == RMul(SumScore(claim.sources), <<1, n>>)
             base_confidence == RAdd(RMul(<<7, 10>>, best_score),
                                     RMul(<<3, 10>>, avg_score))
         IN  IF n > 1 /\ RLe(<<1, 2>>, WorstScore(claim.sources))
             THEN LET source_bonus == RMin(<<1, 5>>, RMul(<<1, 20>>, <<n, 1>>))
                  IN  RMin(One, RAdd(base_confidence, source_bonus))
             ELSE base_confidence

_calculate_base_confidence(claim) ==
    IF claim.sources = <<>> THEN Zero
    ELSE LET n               == Len(claim.sources)
             best_score      == BestScore(claim.sources)
             avg_score       == RMul(SumScore(claim.sources), <<1, n>>)
             base_confidence == RAdd(RMul(<<7, 10>>, best_score),
                                     RMul(<<3, 10>>, avg_score))
         IN  IF n > 1 /\ RLt(<<1, 2>>, WorstScore(claim.sources))
             THEN LET source_bonus == RMin(<<1, 5>>, RMul(<<1, 20>>, <<n, 1>>))
                  IN  RMin(One, RAdd(base_confidence, source_bonus))
             ELSE base_confidence

\* self.claim_type_weights.get(claim_type_key, 1.0)
WeightOf(c, claim) ==
    IF claim.type \in DOMAIN c.claim_type_weights
    THEN c.claim_type_weights[claim.type] ELSE One

\* a weight over 1 applied as a plain factor
_apply_claim_type_weighting_linear_boost(c, claim, base_confidence) ==
    RMax(Zero, RMin(One, RMul(base_confidence, WeightOf(c, claim))))

_apply_claim_type_weighting(c, claim, base_confidence) ==
    LET weight == WeightOf(c, claim)
        weighted_confidence ==
            IF RLt(weight, One) THEN RMul(base_confidence, weight)
            ELSE RAdd(base_confidence,
                      RMul(RMul(RSub(weight, One), base_confidence),
                           RSub(One, base_confidence)))
    IN  RMax(Zero, RMin(One, weighted_confidence))

\* the number of sources whose excerpt contains one of the claim's entities
EntityMatches(claim) ==
    Cardinality({k \in DOMAIN claim.sources :
        \E e \in DOMAIN claim.entities :
            Contains(LowerStr(claim.sources[k].text_excerpt),
                     LowerStr(claim.entities[e].text))})

\* the text length above which a claim counts as complex
ComplexLength == 100

_apply_confidence_adjustments(claim, weighted_confidence) ==
    LET complex  == IF Len(claim.text) > ComplexLength
                    THEN RMul(weighted_confidence, <<19, 20>>)
                    ELSE weighted_confidence
        matches  == EntityMatches(claim)
        boosted  == IF claim.entities # <<>> /\ Len(claim.sources) > 0 /\ matches > 0
                    THEN RMin(One, RAdd(complex,
                                        RMul(<<1, 10>>, <<matches, Len(claim.sources)>>)))
                    ELSE complex
    IN  IF RLt(<<1, 2>>, weighted_confidence) /\ RLt(weighted_confidence, <<7, 10>>)
        THEN RSub(boosted, <<1, 20>>)
        ELSE boosted

\* a variant without the early return for a claim that has no sources
_calculate_claim_confidence_no_early_return(c, claim) ==
    LET base_confidence     == _calculate_base_confidence(claim)
        weighted_confidence == _apply_claim_type_weighting(c, claim, base_confidence)
        adjusted_confidence == _apply_confidence_adjustments(claim, weighted_confidence)
    IN  RMax(Zero, RMin(One, adjusted_confidence))

\* the configured unsupported score ignored
_calculate_claim_confidence_zero_unsupported(c, claim) ==
    IF claim.sources = <<>> THEN Zero
    ELSE LET base_confidence     == _calculate_base_confidence(claim)
             weighted_confidence == _apply_claim_type_weighting(c, claim, base_confidence)
             adjusted_confidence == _apply_confidence_adjustments(claim, weighted_confidence)
         IN  RMax(Zero, RMin(One, adjusted_confidence))

_calculate_claim_confidence(c, claim) ==
    IF claim.sources = <<>> THEN c.unsupported_claim_score
    ELSE LET base_confidence     == _calculate_base_confidence(claim)
             weighted_confidence == _apply_claim_type_weighting(c, claim, base_confidence)
             adjusted_confidence == _apply_confidence_adjustments(claim, weighted_confidence)
         IN  RMax(Zero, RMin(One, adjusted_confidence))

\* a scorer that averages the new confidence with the one the claim had
score_claims_smoothed(c, cs) ==
    [i \in DOMAIN cs |->
        [cs[i] EXCEPT !.confidence_score =
            RMul(<<1, 2>>, RAdd(cs[i].confidence_score,
                                _calculate_claim_confidence(c, cs[i])))]]

\* score_claims(claims): every claim of the list gets its confidence_score
score_claims(c, cs) ==
    [i \in DOMAIN cs |->
        [cs[i] EXCEPT !.confidence_score = _calculate_claim_confidence(c, cs[i])]]

(***************************************************************************)
(* SpecScore: score_claims runs once on a list of claims with evidence      *)
(***************************************************************************)
MaxSources     == 2   \* a scored claim has at most this many sources
MaxScoreClaims == 2   \* score_claims gets at most this many claims

ShortText == <<"A","l"," ","i","s">>
LongText  == [i \in 1..(ComplexLength + 1) |-> "a"]

SourceSamples ==
    {SourceReference("c1", "d1", <<"x">>, <<1, 2>>),
     SourceReference("c2", "d1", <<"a","l">>, <<3, 5>>),
     SourceReference("c3", "d2", <<"A","l"," ","i","s">>, <<1, 1>>)}

\* the lists of at most n elements of S
RECURSIVE SeqsUpTo(_, _)
SeqsUpTo(S, n) ==
    IF n = 0 THEN {<<>>}
    ELSE LET shorter == SeqsUpTo(S, n - 1)
         IN  shorter \cup {Append(q, x) : q \in shorter, x \in S}

\* evidence lists of five sources, for which 0.05 * len(sources) passes 0.2
ManySources == {[i \in 1..5 |-> s] : s \in SourceSamples}

\* a claim as the mapper hands it over: sources attached, not scored yet
MappedClaim(id, txt, type, entities, sources) ==
    [Claim(id, txt, type, 0, Len(txt), entities) EXCEPT !.sources = sources]

ScoreClaimSamples ==
    {MappedClaim(1, txt, ty, ents, ss) :
        txt \in {ShortText, LongText},
        ty \in {"numerical", "entity", "causal", "other"},
        ents \in {<<>>, <<[text |-> <<"A","l">>, label |-> "ENTITY", start |-> 0, end |-> 3]>>},
        ss \in SeqsUpTo(SourceSamples, MaxSources) \cup ManySources}

PlainClaims ==
    {MappedClaim(2, ShortText, "other", <<>>, <<>>),
     MappedClaim(2, ShortText, "entity", <<>>,
                 <<SourceReference("c2", "d1", <<"a","l">>, <<3, 5>>)>>)}

\* the claim lists given to score_claims: a sample, then plain claims
ScoreInputs ==
    {<<>>} \cup {<<c>> \o rest : c \in ScoreClaimSamples,
                               rest \in SeqsUpTo(PlainClaims, MaxScoreClaims - 1)}

\* a weight table with a weight over 1, a negative one, one under 1 and no
\* entry for the other types
CustomWeights ==
    [ty \in {"numerical", "causal", "other"} |->
        CASE ty = "numerical" -> <<10, 1>>
          [] ty = "causal"    -> <<0 - 1, 1>>
          [] OTHER            -> <<1, 2>>]

ScorerConfigs ==
    {[DefaultConfig EXCEPT !.unsupported_claim_score = u, !.claim_type_weights = w] :
        u \in {Zero, <<1, 4>>, <<3, 2>>, <<0 - 1, 5>>},
        w \in {DefaultWeights, CustomWeights}}

InitScore ==
    /\ pc = "mapped"
    /\ cfg \in ScorerConfigs
    /\ nlp = None
    /\ text = <<>>
    /\ store = <<>>
    /\ claims \in ScoreInputs
    /\ log = <<>>
    /\ interventions = <<>>
    /\ uuids = 0

\* score_claims called on whatever claim list there is, mapped or not
ScoreClaims_unordered ==
    /\ pc \in {"extracted", "mapped"}
    /\ claims' = score_claims(cfg, claims)
    /\ log' = Append(log, [op |-> "score_claims", in |-> claims, out |-> claims'])
    /\ pc' = "scored"
    /\ UNCHANGED <<cfg, nlp, text, store, uuids, interventions>>

ScoreClaims ==
    /\ pc = "mapped"
    /\ claims' = score_claims(cfg, claims)
    /\ log' = Append(log, [op |-> "score_claims", in |-> claims, out |-> claims'])
    /\ pc' = "scored"
    /\ UNCHANGED <<cfg, nlp, text, store, uuids, interventions>>

NextScore == ScoreClaims

SpecScore == InitScore /\ [][NextScore]_vars

\* C2: after score_claims every claim's confidence_score lies in [0, 1],
\* whatever evidence is attached and whatever unsupported_claim_score and
\* claim_type_weights were configured.
C2_ConfidenceInUnitInterval ==
    pc = "scored" =>
        \A i \in DOMAIN claims :
            /\ RLe(Zero, claims[i].confidence_score)
            /\ RLe(claims[i].confidence_score, One)

\* C3: a claim without evidence gets exactly the configured
\* unsupported_claim_score, whatever its type, text length and entities.
C3_UnsupportedScore ==
    pc = "scored" =>
        \A i \in DOMAIN claims :
            claims[i].sources = <<>> =>
                claims[i].confidence_score = cfg.unsupported_claim_score

\* a long numerical claim with entities and no evidence was scored under an
\* unsupported score that is not the default
C3_Witness ==
    /\ pc = "scored"
    /\ cfg.unsupported_claim_score = <<1, 4>>
    /\ \E i \in DOMAIN claims :
          /\ claims[i].sources = <<>>
          /\ claims[i].type = "numerical"
          /\ Len(claims[i].text) > 100
          /\ claims[i].entities # <<>>
          /\ claims[i].confidence_score = <<1, 4>>

(***************************************************************************)
(* ClaimMerger (claim_extraction/extractor.py)                             *)
(***************************************************************************)
\* sorted(claims, key=lambda c: c.start_idx): a stable insertion sort
RECURSIVE InsertByStart(_, _)
InsertByStart(sorted, c) ==
    IF sorted = <<>> THEN <<c>>
    ELSE IF c.start_idx < Head(sorted).start_idx THEN <<c>> \o sorted
    ELSE <<Head(sorted)>> \o InsertByStart(Tail(sorted), c)

RECURSIVE SortByStart(_)
SortByStart(cs) ==
    IF cs = <<>> THEN <<>>
    ELSE InsertByStart(SortByStart(SubSeq(cs, 1, Len(cs) - 1)), cs[Len(cs)])

\* the merge test with the distance compared strictly
ShouldMerge_strict(c, prev_claim, current_claim) ==
    /\ current_claim.start_idx - prev_claim.end_idx < c.max_distance
    /\ ~c.merge_same_type \/ current_claim.type = prev_claim.type

\* the merge test of the grouping loop
ShouldMerge(c, prev_claim, current_claim) ==
    /\ current_claim.start_idx - prev_claim.end_idx <= c.max_distance
    /\ ~c.merge_same_type \/ current_claim.type = prev_claim.type

\* the grouping loop of merge_claims from index i on: merge_groups so far and
\* current_group, both as lists of indices into sorted_claims
RECURSIVE GroupLoop(_, _, _, _, _)
GroupLoop(c, sorted_claims, i, merge_groups, current_group) ==
    IF i > Len(sorted_claims)
    THEN (IF current_group # <<>> THEN Append(merge_groups, current_group)
          ELSE merge_groups)
    ELSE IF ShouldMerge(c, sorted_claims[current_group[Len(current_group)]],
                        sorted_claims[i])
    THEN GroupLoop(c, sorted_claims, i + 1, merge_groups, Append(current_group, i))
    ELSE GroupLoop(c, sorted_claims, i + 1, Append(merge_groups, current_group), <<i>>)

\* type_priority of _merge_claim_group
TypePriority(ty) ==
    CASE ty = "numerical" -> 5
      [] ty = "temporal"  -> 4
      [] ty = "entity"    -> 3
      [] ty \in {"causal", "comparative", "definitional"} -> 2
      [] ty = "citation"  -> 1
      [] OTHER            -> 0

\* min(claims, key=lambda c: c.start_idx): the first claim with the least start
FirstClaim(group) ==
    group[Min({i \in DOMAIN group :
                  \A j \in DOMAIN group : group[i].start_idx <= group[j].start_idx})]
\* max(claims, key=lambda c: c.end_idx): the first claim with the greatest end
LastClaim(group) ==
    group[Min({i \in DOMAIN group :
                  \A j \in DOMAIN group : group[j].end_idx <= group[i].end_idx})]
\* the type of the last claim of the highest priority
MergedType_last(group) ==
    group[Max({i \in DOMAIN group :
                  \A j \in DOMAIN group :
                      TypePriority(group[j].type) <= TypePriority(group[i].type)})].type

\* max(claims, key=type_priority).type: the first claim of the highest priority
MergedType(group) ==
    group[Min({i \in DOMAIN group :
                  \A j \in DOMAIN group :
                      TypePriority(group[j].type) <= TypePriority(group[i].type)})].type

\* the entities of one claim, re-based to the merged span
Rebased(claim, start_idx) ==
    [k \in DOMAIN claim.entities |->
        [claim.entities[k] EXCEPT
            !.start = claim.entities[k].start + (claim.start_idx - start_idx),
            !.end   = claim.entities[k].end + (claim.start_idx - start_idx)]]

\* appends the entities whose (text, label) is not in the list yet
RECURSIVE AddUnseen(_, _)
AddUnseen(combined, es) ==
    IF es = <<>> THEN combined
    ELSE IF \E k \in DOMAIN combined :
               /\ combined[k].text = Head(es).text
               /\ combined[k].label = Head(es).label
    THEN AddUnseen(combined, Tail(es))
    ELSE AddUnseen(Append(combined, Head(es)), Tail(es))

RECURSIVE CombineEntities(_, _, _, _)
CombineEntities(group, i, start_idx, combined) ==
    IF i > Len(group) THEN combined
    ELSE CombineEntities(group, i + 1, start_idx,
                         AddUnseen(combined, Rebased(group[i], start_idx)))

_merge_claim_group(group, id) ==
    LET start_idx   == Min({group[i].start_idx : i \in DOMAIN group})
        end_idx     == Max({group[i].end_idx : i \in DOMAIN group})
        first_claim == FirstClaim(group)
        last_claim  == LastClaim(group)
        full_text   == Slice(first_claim.text, 0,
                             last_claim.start_idx - first_claim.start_idx)
                       \o last_claim.text
    IN  Claim(id, full_text, MergedType(group), start_idx, end_idx,
              CombineEntities(group, 1, start_idx, <<>>))

\* the loop that builds merged_claims from merge_groups[g..]
RECURSIVE BuildMerged(_, _, _, _, _)
BuildMerged(sorted_claims, merge_groups, g, merged_claims, id) ==
    IF g > Len(merge_groups) THEN merged_claims
    ELSE LET group == merge_groups[g]
         IN  IF Len(group) = 1
             THEN BuildMerged(sorted_claims, merge_groups, g + 1,
                              Append(merged_claims, sorted_claims[group[1]]), id)
             ELSE BuildMerged(sorted_claims, merge_groups, g + 1,
                              Append(merged_claims,
                                     _merge_claim_group(
                                         [k \in DOMAIN group |-> sorted_claims[group[k]]],
                                         id)),
                              id + 1)

\* merge_claims without the step that adds the last group
merge_claims_drop_last_group(c, cs, id) ==
    IF Len(cs) <= 1 THEN cs
    ELSE LET sorted_claims == SortByStart(cs)
             merge_groups  == GroupLoop(c, sorted_claims, 2, <<>>, <<1>>)
         IN  BuildMerged(sorted_claims,
                         SubSeq(merge_groups, 1, Len(merge_groups) - 1), 1, <<>>, id)

merge_claims(c, cs, id) ==
    IF Len(cs) <= 1 THEN cs
    ELSE LET sorted_claims == SortByStart(cs)
         IN  BuildMerged(sorted_claims,
                         GroupLoop(c, sorted_claims, 2, <<>>, <<1>>), 1, <<>>, id)

(***************************************************************************)
(* Specification SpecMerge: ClaimMerger.merge_claims on bounded claim      *)
(* lists, applied once and then once more to its own output                *)
(***************************************************************************)
MaxMergeClaims == 3

\* the response the claims to merge were extracted from
Response == <<"a","b","c","d","e","f","g","h","i","j","k","l">>

\* a claim on [start_idx, end_idx) of the response t
SpanClaim(t, type, start_idx, end_idx, entities) ==
    Claim(0, Slice(t, start_idx, end_idx), type, start_idx, end_idx, entities)

\* an entity of the claim starting at claim_start, found at [a, b) of t
EntityAt(t, claim_start, a, b) ==
    [text |-> Slice(t, a, b), label |-> "ENTITY",
     start |-> a - claim_start, end |-> b - claim_start]

\* claims with disjoint, adjacent, overlapping and nested spans
MergeClaimSamples ==
    { SpanClaim(Response, "numerical", 0, 2, <<EntityAt(Response, 0, 1, 2)>>),
      SpanClaim(Response, "other", 0, 6, <<>>),
      SpanClaim(Response, "causal", 1, 3, <<EntityAt(Response, 1, 1, 2)>>),
      SpanClaim(Response, "comparative", 2, 4, <<EntityAt(Response, 2, 3, 4)>>),
      SpanClaim(Response, "numerical", 4, 6, <<>>),
      SpanClaim(Response, "causal", 7, 8, <<>>),
      SpanClaim(Response, "numerical", 8, 9, <<>>),
      SpanClaim(Response, "numerical", 11, 12, <<>>) }

MergeInputs ==
    { [i \in DOMAIN s |-> [s[i] EXCEPT !.id = i]] :
        s \in SeqsUpTo(MergeClaimSamples, MaxMergeClaims) }

MergerConfigs ==
    { [DefaultConfig EXCEPT !.max_distance = d, !.merge_same_type = m] :
        d \in {0, 2, 20}, m \in BOOLEAN }

\* three same-type claims: the second 10 characters after the first, the
\* third 50 characters after the second
LongResponse == [i \in 1..90 |-> LowerSeq[((i - 1) % 26) + 1]]
SpacedClaims ==
    << [SpanClaim(LongResponse, "numerical", 0, 10, <<>>) EXCEPT !.id = 1],
       [SpanClaim(LongResponse, "numerical", 20, 30, <<>>) EXCEPT !.id = 2],
       [SpanClaim(LongResponse, "numerical", 80, 90, <<>>) EXCEPT !.id = 3] >>

InitMerge ==
    /\ pc = "extracted"
    /\ \/ /\ cfg \in MergerConfigs
          /\ text = Response
          /\ claims \in MergeInputs
       \/ /\ cfg = DefaultConfig
          /\ text = LongResponse
          /\ claims = SpacedClaims
    /\ nlp = None
    /\ store = <<>>
    /\ log = <<>>
    /\ interventions = <<>>
    /\ uuids = Len(claims)

\* the number of claims of out that are not claims of in
Fresh(in, out) ==
    Cardinality({k \in DOMAIN out : \A i \in DOMAIN in : in[i].id # out[k].id})

MergeClaims ==
    /\ pc \in {"extracted", "merged"}
    /\ claims' = merge_claims(cfg, claims, uuids + 1)
    /\ log' = Append(log, [op |-> "merge_claims", in |-> claims, out |-> claims'])
    /\ uuids' = uuids + Fresh(claims, claims')
    /\ pc' = IF pc = "extracted" THEN "merged" ELSE "remerged"
    /\ UNCHANGED <<cfg, nlp, text, store, interventions>>

NextMerge == MergeClaims

SpecMerge == InitMerge /\ [][NextMerge]_vars

(***************************************************************************)
(* Properties of merge_claims                                              *)
(***************************************************************************)
\* the merge_claims calls made so far
MergeCalls == {k \in DOMAIN log : log[k].op = "merge_claims"}

\* out[k] was built by the call, not passed through from in
IsMerged(in, out, k) == \A i \in DOMAIN in : in[i].id # out[k].id

\* consecutive claims i and i + 1 of the start-ordered list s belong together
Joined(c, s, i) ==
    /\ s[i + 1].start_idx - s[i].end_idx <= c.max_distance
    /\ c.merge_same_type => s[i + 1].type = s[i].type

\* the positions of s that open a group, and the members of the group opened at g
GroupStarts(c, s) == {1} \cup {i + 1 : i \in {j \in 1..(Len(s) - 1) : ~Joined(c, s, j)}}
GroupMembers(c, s, g) ==
    g..(Min({h \in GroupStarts(c, s) \cup {Len(s) + 1} : h > g}) - 1)
\* the position that opens the k-th group
KthStart(c, s, k) ==
    CHOOSE g \in GroupStarts(c, s) :
        Cardinality({h \in GroupStarts(c, s) : h <= g}) = k

\* C5: merging the output of a merge again, under the same configuration,
\* returns as many claims, each with the same span, type, text and entities
\* (ids aside).
C5_MergeIdempotent ==
    pc = "remerged" =>
        /\ Len(log[2].out) = Len(log[1].out)
        /\ \A n \in DOMAIN log[1].out :
               [log[2].out[n] EXCEPT !.id = 0] = [log[1].out[n] EXCEPT !.id = 0]

\* C6: a merge never returns more claims than it was given, and returns at
\* least one claim when it was given at least one.
C6_NeverMoreClaims ==
    \A k \in MergeCalls :
        /\ Len(log[k].out) <= Len(log[k].in)
        /\ log[k].in # <<>> => log[k].out # <<>>

C6_Witness ==
    /\ pc = "merged"
    /\ Len(log[1].in) = 3
    /\ Len(log[1].out) = 2

\* C7: in start order, two consecutive claims share a group exactly when the
\* next one starts at most max_distance after the previous one ends and, with
\* merge_same_type set, both have the same type; every group of one claim is
\* returned as it was and every larger group as one new claim that spans from
\* the least start to the greatest end of its members.
C7_GroupingRule ==
    \A k \in MergeCalls :
        LET in  == log[k].in
            out == log[k].out
            s   == SortByStart(in)
        IN  IF Len(in) <= 1 THEN out = in
            ELSE /\ Len(out) = Cardinality(GroupStarts(cfg, s))
                 /\ \A n \in DOMAIN out :
                        LET g  == KthStart(cfg, s, n)
                            ms == GroupMembers(cfg, s, g)
                        IN  IF Cardinality(ms) = 1 THEN out[n] = s[g]
                            ELSE /\ IsMerged(in, out, n)
                                 /\ out[n].start_idx = Min({s[i].start_idx : i \in ms})
                                 /\ out[n].end_idx = Max({s[i].end_idx : i \in ms})

\* with max_distance 20, of three same-type claims the two that lie 10
\* characters apart are merged and the one 50 characters further is kept
C7_Witness ==
    /\ pc = "merged"
    /\ cfg.max_distance = 20
    /\ log[1].in = SpacedClaims
    /\ Len(log[1].out) = 2
    /\ log[1].out[1].start_idx = 0
    /\ log[1].out[1].end_idx = 30
    /\ log[1].out[2] = SpacedClaims[3]

\* C8: the text of a claim built by a merge is as long as its span, whether
\* its members were adjacent or had a gap between them.
C8_MergedTextLength ==
    \A k \in MergeCalls :
        \A n \in DOMAIN log[k].out :
            IsMerged(log[k].in, log[k].out, n) =>
                Len(log[k].out[n].text) = log[k].out[n].end_idx - log[k].out[n].start_idx

\* C9: a claim built by a merge has the type of its member of the highest
\* priority and, among members of equal highest priority, of the one that
\* comes first in start order.
C9_MergedTypePriority ==
    \A k \in MergeCalls :
        LET in  == log[k].in
            out == log[k].out
            s   == SortByStart(in)
        IN  \A n \in DOMAIN out :
                IsMerged(in, out, n) =>
                    LET ms  == GroupMembers(cfg, s, KthStart(cfg, s, n))
                        top == {i \in ms : \A j \in ms :
                                   TypePriority(s[j].type) <= TypePriority(s[i].type)}
                    IN  out[n].type = s[Min(top)].type

\* two members tie on the highest priority with different types
C9_Witness ==
    /\ pc = "merged"
    /\ Len(log[1].in) = 3
    /\ Len(log[1].out) = 1
    /\ LET s == SortByStart(log[1].in)
       IN  /\ s[1].type = "other"
           /\ s[2].type = "comparative"
           /\ s[3].type = "causal"
           /\ log[1].out[1].type = "comparative"

(***************************************************************************)
(* SourceMapper (source_mapping/mapper.py) and DocumentStore               *)
(***************************************************************************)
\* a DocumentChunk: the fields the mapper reads
DocumentChunk(id, txt, source_document, boundary_type, parent_section) ==
    [id |-> id, text |-> txt, source_document |-> source_document,
     boundary_type |-> boundary_type, parent_section |-> parent_section]

\* s[:n] for a list s and n >= 0
Take(s, n) == IF n >= Len(s) THEN s ELSE SubSeq(s, 1, n)

\* DocumentStore.search(query, limit): the first limit chunks, whatever the query
search(chunks, query, limit) == Take(chunks, limit)
\* DocumentStore.get_all_chunks()
get_all_chunks(chunks) == chunks

\* re.findall(r, t) for a pattern without a group: the matched texts
MatchTexts(t, ms) == [i \in DOMAIN ms |-> Slice(t, ms[i].start, ms[i].end)]
FindAll(r, t, ic) == MatchTexts(t, FindIter(r, t, 0, ic))

ToSet(s) == {s[i] : i \in DOMAIN s}

\* \b[A-Za-z]{3,}\b and \b[A-Za-z]{4,}\b
WordPattern     == Cat(<<WB, Rep(Cls("a"), 3, 0 - 1), WB>>)
LongWordPattern == Cat(<<WB, Rep(Cls("a"), 4, 0 - 1), WB>>)

\* the candidate limit of the three searches
SearchLimit == 10
\* the keyword limit, and the length a word must exceed to be a keyword
KeywordLimit == 5
KeywordLength == 4

_semantic_search(claim, chunks) == search(chunks, claim.text, SearchLimit)

\* any(k.lower() in chunk.text.lower() for k in needles)
AnyIn(needles, chunk) ==
    \E k \in DOMAIN needles : Contains(LowerStr(chunk.text), LowerStr(needles[k]))

\* the chunks of the store that contain one of the needles, SearchLimit at most
ChunksWith(needles, chunks) ==
    Take(SelectSeq(get_all_chunks(chunks), LAMBDA ch : AnyIn(needles, ch)), SearchLimit)

\* the keywords taken from the words of the claim
Keywords(words) ==
    LET long == Take(SelectSeq(words, LAMBDA w : Len(w) > KeywordLength), KeywordLimit)
    IN  IF long = <<>> THEN Take(words, KeywordLimit) ELSE long

_keyword_search(claim, chunks) ==
    ChunksWith(Keywords(FindAll(WordPattern, claim.text, FALSE)), chunks)

_entity_search(claim, chunks) ==
    LET entity_texts == [k \in DOMAIN claim.entities |-> claim.entities[k].text]
    IN  IF entity_texts = <<>> THEN <<>> ELSE ChunksWith(entity_texts, chunks)

\* appends the chunks whose id has not been seen yet
RECURSIVE AppendUnseen(_, _)
AppendUnseen(potential_sources, entity_sources) ==
    IF entity_sources = <<>> THEN potential_sources
    ELSE IF \E k \in DOMAIN potential_sources :
               potential_sources[k].id = Head(entity_sources).id
    THEN AppendUnseen(potential_sources, Tail(entity_sources))
    ELSE AppendUnseen(Append(potential_sources, Head(entity_sources)),
                      Tail(entity_sources))

\* the candidates joined without a look at the ids
WithEntitySources_all(c, claim, chunks, potential_sources) ==
    IF c.enable_entity_matching /\ claim.entities # <<>>
    THEN potential_sources \o _entity_search(claim, chunks)
    ELSE potential_sources

\* the entity matches joined to the candidates of the first search
WithEntitySources(c, claim, chunks, potential_sources) ==
    IF c.enable_entity_matching /\ claim.entities # <<>>
    THEN AppendUnseen(potential_sources, _entity_search(claim, chunks))
    ELSE potential_sources

_find_potential_sources(c, claim, chunks) ==
    WithEntitySources(c, claim, chunks,
                      IF c.use_semantic_search THEN _semantic_search(claim, chunks)
                      ELSE _keyword_search(claim, chunks))

\* the boost for matched entities and the penalty factor of the fallback
EntityBoost == <<1, 5>>
FallbackFactor == <<4, 5>>

\* the score of _score_generic_claim, given the words of the claim and of
\* the chunk
GenericScore(c, claim, chunk, claim_words, chunk_words) ==
    LET intersection == claim_words \cap chunk_words
        union        == claim_words \cup chunk_words
        matched_entities ==
            Cardinality({k \in DOMAIN claim.entities :
                Contains(LowerStr(chunk.text), LowerStr(claim.entities[k].text))})
        entity_boost ==
            IF claim.entities # <<>> /\ c.enable_entity_matching /\ matched_entities > 0
            THEN RMul(EntityBoost, RMin(One, Rat(matched_entities, Len(claim.entities))))
            ELSE Zero
    IN  IF claim_words = {} THEN Zero
        ELSE IF union = {} THEN Zero
        ELSE RMin(One, RAdd(Rat(Cardinality(intersection), Cardinality(union)),
                            entity_boost))

_score_generic_claim(c, claim, chunk) ==
    GenericScore(c, claim, chunk,
                 ToSet(FindAll(WordPattern, LowerStr(claim.text), FALSE)),
                 ToSet(FindAll(WordPattern, LowerStr(chunk.text), FALSE)))

\* \d+(\.\d+)?
NumberPattern ==
    Cat(<<Plus(Cls("d")), Opt(Cat(<<Lit("."), Plus(Cls("d"))>>))>>)

\* re.findall(r'\d+(\.\d+)?', t): findall returns what the group captured, the
\* fraction with its point, or "" for a number without a fraction
NumberGroup(m) ==
    IF Find(m, <<".">>) < 0 THEN <<>> ELSE Slice(m, Find(m, <<".">>), Len(m))
GroupsOfNumbers(ms) == [i \in DOMAIN ms |-> NumberGroup(ms[i])]
NumberGroups(t) == GroupsOfNumbers(FindAll(NumberPattern, t, FALSE))

\* the score without the rule for a chunk that has no number
NumericalScore_no_zero_rule(c, claim, chunk, claim_numbers, chunk_numbers) ==
    LET shared_numbers == ToSet(claim_numbers) \cap ToSet(chunk_numbers)
    IN  IF shared_numbers # {}
        THEN RMin(One, Rat(Cardinality(shared_numbers), Len(claim_numbers)))
        ELSE RMul(_score_generic_claim(c, claim, chunk), FallbackFactor)

\* the score of _score_numerical_claim, given the numbers of the claim and of
\* the chunk
NumericalScore(c, claim, chunk, claim_numbers, chunk_numbers) ==
    LET shared_numbers == ToSet(claim_numbers) \cap ToSet(chunk_numbers)
    IN  IF claim_numbers # <<>> /\ chunk_numbers = <<>> THEN Zero
        ELSE IF shared_numbers # {}
        THEN RMin(One, Rat(Cardinality(shared_numbers), Len(claim_numbers)))
        ELSE RMul(_score_generic_claim(c, claim, chunk), FallbackFactor)

_score_numerical_claim(c, claim, chunk) ==
    NumericalScore(c, claim, chunk, NumberGroups(claim.text), NumberGroups(chunk.text))

\* \b(19|20)\d{2}\b|\b\d{1,2}/\d{1,2}/\d{2,4}\b
TemporalDatePattern ==
    Alt(<<Cat(<<WB, Alt(<<Str(<<"1","9">>), Str(<<"2","0">>)>>), Rep(Cls("d"), 2, 2), WB>>),
          DateSlashPattern>>)

\* re.findall(date_pattern, t): the century the group captured, or "" for a
\* date written with slashes
DateGroup(m) == IF Contains(m, <<"/">>) THEN <<>> ELSE Slice(m, 0, 2)
GroupsOfDates(ms) == [i \in DOMAIN ms |-> DateGroup(ms[i])]
DateGroups(t) == GroupsOfDates(FindAll(TemporalDatePattern, t, FALSE))

\* the score of _score_temporal_claim, given the dates and the month names of
\* the claim and of the chunk
TemporalScore(c, claim, chunk, claim_dates, chunk_dates, claim_months, chunk_months) ==
    LET shared_dates  == ToSet(claim_dates) \cap ToSet(chunk_dates)
        shared_months == {LowerStr(m) : m \in ToSet(claim_months)}
                         \cap {LowerStr(m) : m \in ToSet(chunk_months)}
    IN  IF (claim_dates # <<>> \/ claim_months # <<>>)
           /\ ~(chunk_dates # <<>> \/ chunk_months # <<>>) THEN Zero
        ELSE IF shared_dates # {} \/ shared_months # {}
        THEN RMin(One, Rat(Cardinality(shared_dates) + Cardinality(shared_months),
                           Len(claim_dates) + Len(claim_months)))
        ELSE RMul(_score_generic_claim(c, claim, chunk), FallbackFactor)

_score_temporal_claim(c, claim, chunk) ==
    TemporalScore(c, claim, chunk, DateGroups(claim.text), DateGroups(chunk.text),
                  FindAll(MonthPattern, claim.text, TRUE),
                  FindAll(MonthPattern, chunk.text, TRUE))

_calculate_alignment_score(c, claim, chunk) ==
    IF claim.type = "numerical" THEN _score_numerical_claim(c, claim, chunk)
    ELSE IF claim.type = "temporal" THEN _score_temporal_claim(c, claim, chunk)
    ELSE _score_generic_claim(c, claim, chunk)

\* the chunk length up to which the whole chunk is the excerpt, and the
\* length a sentence must have to be considered
ExcerptLength == 200
MinSentenceLength == 10

\* the overlap score of one sentence
SentenceScore(sentence, important_words) ==
    Rat(Cardinality(ToSet(FindAll(LongWordPattern, LowerStr(sentence), FALSE))
                    \cap important_words),
        Max({1, Cardinality(important_words)}))

\* the sentence loop of _extract_relevant_excerpt from sentence i on
RECURSIVE BestSentence(_, _, _, _, _)
RECURSIVE BetterSentence(_, _, _, _, _, _)
BestSentence(sentences, i, important_words, best_sentence, best_score) ==
    IF i > Len(sentences) THEN best_sentence
    ELSE IF Len(sentences[i]) < MinSentenceLength
    THEN BestSentence(sentences, i + 1, important_words, best_sentence, best_score)
    ELSE BetterSentence(sentences, i, important_words, best_sentence, best_score,
                        SentenceScore(sentences[i], important_words))

\* the comparison of sentence i, whose score is given, with the best so far
BetterSentence(sentences, i, important_words, best_sentence, best_score, score) ==
    IF RLt(best_score, score)
    THEN BestSentence(sentences, i + 1, important_words, sentences[i], score)
    ELSE BestSentence(sentences, i + 1, important_words, best_sentence, best_score)

\* the excerpt for the best sentence found, if any
ExcerptOf(chunk, best_sentence) ==
    IF best_sentence = <<>>
    THEN Slice(chunk.text, 0, ExcerptLength) \o <<".",".",".">>
    ELSE Strip(best_sentence)

_extract_relevant_excerpt(claim, chunk) ==
    IF Len(chunk.text) <= ExcerptLength THEN chunk.text
    ELSE ExcerptOf(chunk,
             BestSentence(SplitSentences(chunk.text), 1,
                          ToSet(FindAll(LongWordPattern, LowerStr(claim.text), FALSE)),
                          <<>>, Zero))

\* the body of the loop of _score_sources for one chunk, given its score
ScoredSource(claim, chunk, alignment_score) ==
    IF RLt(Zero, alignment_score)
    THEN << [SourceReference(chunk.id, chunk.source_document,
                             _extract_relevant_excerpt(claim, chunk),
                             alignment_score)
             EXCEPT !.context = [boundary_type |-> chunk.boundary_type,
                                 parent_section |-> chunk.parent_section]] >>
    ELSE <<>>

RECURSIVE _score_sources(_, _, _)
_score_sources(c, claim, chunks) ==
    IF chunks = <<>> THEN <<>>
    ELSE ScoredSource(claim, Head(chunks),
                      _calculate_alignment_score(c, claim, Head(chunks)))
         \o _score_sources(c, claim, Tail(chunks))

\* list.sort(key=alignment_score, reverse=True): stable, the first of two
\* equal scores stays first
RECURSIVE InsertByScore(_, _)
InsertByScore(sorted, s) ==
    IF sorted = <<>> THEN <<s>>
    ELSE IF RLt(Head(sorted).alignment_score, s.alignment_score) THEN <<s>> \o sorted
    ELSE <<Head(sorted)>> \o InsertByScore(Tail(sorted), s)

RECURSIVE SortByScore(_)
SortByScore(ss) ==
    IF ss = <<>> THEN <<>>
    ELSE InsertByScore(SortByScore(SubSeq(ss, 1, Len(ss) - 1)), ss[Len(ss)])

\* f"Found {n} supporting sources"
FoundNote(n) == "Found " \o ToString(n) \o " supporting sources"

\* the first half of the loop body of map_to_sources: the candidate chunks of
\* one claim and their scored references
TraceOf(c, claim, potential_sources) ==
    [potential_sources |-> potential_sources,
     scored_sources    |-> _score_sources(c, claim, potential_sources)]
MapTrace(c, claim, chunks) ==
    TraceOf(c, claim, _find_potential_sources(c, claim, chunks))

\* the second half with the threshold compared strictly
AttachSources_strict(c, claim, scored_sources) ==
    LET valid_sources == SelectSeq(scored_sources,
                             LAMBDA s : RLt(c.min_alignment_score, s.alignment_score))
        sources       == Take(SortByScore(valid_sources), c.max_sources_per_claim)
    IN  [claim EXCEPT !.sources = sources,
                      !.verification_notes =
                          IF sources # <<>> THEN FoundNote(Len(sources))
                          ELSE "No supporting sources found"]

\* the second half with the sort left out
AttachSources_unsorted(c, claim, scored_sources) ==
    LET valid_sources == SelectSeq(scored_sources,
                             LAMBDA s : RLe(c.min_alignment_score, s.alignment_score))
        sources       == Take(valid_sources, c.max_sources_per_claim)
    IN  [claim EXCEPT !.sources = sources,
                      !.verification_notes =
                          IF sources # <<>> THEN FoundNote(Len(sources))
                          ELSE "No supporting sources found"]

\* the second half of the loop body: filter, sort, cut, note
AttachSources(c, claim, scored_sources) ==
    LET valid_sources == SelectSeq(scored_sources,
                             LAMBDA s : RLe(c.min_alignment_score, s.alignment_score))
        sources       == Take(SortByScore(valid_sources), c.max_sources_per_claim)
    IN  [claim EXCEPT !.sources = sources,
                      !.verification_notes =
                          IF sources # <<>> THEN FoundNote(Len(sources))
                          ELSE "No supporting sources found"]

\* the loop of map_to_sources, given the trace of every claim
MapLoop(c, cs, traces) ==
    [i \in DOMAIN cs |-> AttachSources(c, cs[i], traces[i].scored_sources)]

\* a mapper that returns the supported claims only
map_to_sources_supported_only(c, cs, chunks) ==
    SelectSeq(MapLoop(c, cs, [i \in DOMAIN cs |-> MapTrace(c, cs[i], chunks)]),
              LAMBDA claim : claim.sources # <<>>)

map_to_sources(c, cs, chunks) ==
    MapLoop(c, cs, [i \in DOMAIN cs |-> MapTrace(c, cs[i], chunks)])

(***************************************************************************)
(* Specification SpecMap: SourceMapper.map_to_sources on bounded claim     *)
(* lists and document stores                                               *)
(***************************************************************************)
MaxMapClaims == 1
MaxChunks == 2

\* a claim as the extractor returns it for a response that is just txt
TextClaim(txt, type, entities) == Claim(0, txt, type, 0, Len(txt), entities)

MapClaimSamples ==
    { TextClaim(<<"w","e"," ","s","a","w"," ","r","e","d"," ","s","u","n">>, "other", <<>>),
      TextClaim(<<"A","l"," ","s","a","w"," ","r","e","d"," ","s","u","n">>, "entity",
                <<[text |-> <<"A","l">>, label |-> "ENTITY", start |-> 0, end |-> 2]>>),
      TextClaim(<<"I","t"," ","i","s"," ","1","2"," ","o","r"," ","3","4">>, "numerical", <<>>),
      TextClaim(<<"i","n"," ","M","a","y"," ","2","0","1","9">>, "temporal", <<>>) }

MapInputs ==
    { [i \in DOMAIN s |-> [s[i] EXCEPT !.id = i]] :
        s \in SeqsUpTo(MapClaimSamples, MaxMapClaims) }

ChunkSamples ==
    { DocumentChunk("a", <<"s","a","w"," ","b","i","g"," ","r","e","d"," ","s","u","n"," ","s","e","t">>, "doc1", "paragraph", "None"),
      DocumentChunk("b", <<"w","e"," ","s","a","w"," ","r","e","d"," ","s","u","n">>, "doc1", "None", "intro"),
      DocumentChunk("c", <<"A","l"," ","i","n"," ","M","a","y"," ","1","2">>, "doc2", "heading", "None"),
      DocumentChunk("d", <<"r","e","d"," ","s","u","n"," ","s","a","w">>, "doc2", "paragraph", "None") }

\* a store of one fragment more than a search returns, every fragment with a
\* keyword and an entity of the claims above
LongStore ==
    [i \in 1..(SearchLimit + 1) |->
        DocumentChunk("e" \o ToString(i), <<"A","l"," ","s","a","w">>, "doc3", "None", "None")]

Stores == SeqsUpTo(ChunkSamples, MaxChunks) \cup {LongStore}

MapperConfigs ==
    { [DefaultConfig EXCEPT !.min_alignment_score = a[1], !.max_sources_per_claim = a[2],
                            !.use_semantic_search = s, !.enable_entity_matching = e] :
        a \in {<<(<<3, 5>>), 3>>, <<(<<1, 2>>), 1>>}, s \in BOOLEAN, e \in BOOLEAN }

InitMap ==
    /\ pc = "extracted"
    /\ cfg \in MapperConfigs
    /\ nlp = None
    /\ text = <<>>
    /\ store \in Stores
    /\ claims \in MapInputs
    /\ log = <<>>
    /\ interventions = <<>>
    /\ uuids = Len(claims)

\* map_to_sources; the log entry keeps each claim's candidates and scored
\* references next to the input and the output
MapToSources ==
    /\ pc = "extracted"
    /\ \E traces \in {[i \in DOMAIN claims |-> MapTrace(cfg, claims[i], store)]} :
           /\ claims' = MapLoop(cfg, claims, traces)
           /\ log' = Append(log, [op |-> "map_to_sources", in |-> claims,
                                  traces |-> traces, out |-> claims'])
    /\ pc' = "mapped"
    /\ UNCHANGED <<cfg, nlp, text, store, uuids, interventions>>

NextMap == MapToSources

SpecMap == InitMap /\ [][NextMap]_vars

\* the map_to_sources calls made so far
MapCalls == {k \in DOMAIN log : log[k].op = "map_to_sources"}

\* the scored candidates that reach the configured minimum
Qualifying(c, scored_sources) ==
    {s \in ToSet(scored_sources) : RLe(c.min_alignment_score, s.alignment_score)}

\* C10 (as the code has it): after map_to_sources every evidence entry of a
\* claim is one of its scored candidates and scores at least the configured
\* minimum and more than zero; a candidate below the minimum is never
\* attached, and a candidate exactly at the minimum is attached like any other
\* whenever the qualifying candidates do not exceed max_sources_per_claim.
C10_AlignmentAtLeastMinimum ==
    \A k \in MapCalls :
        \A n \in DOMAIN log[k].out :
            LET sources == log[k].out[n].sources
                qual    == Qualifying(cfg, log[k].traces[n].scored_sources)
            IN  /\ \A i \in DOMAIN sources :
                       /\ RLe(cfg.min_alignment_score, sources[i].alignment_score)
                       /\ RLt(Zero, sources[i].alignment_score)
                       /\ sources[i] \in qual
                /\ Cardinality(qual) <= cfg.max_sources_per_claim =>
                       qual \subseteq ToSet(sources)

\* an evidence entry that scores exactly the default minimum of 0.6
C10_Witness ==
    /\ pc = "mapped"
    /\ cfg.min_alignment_score = <<3, 5>>
    /\ \E n \in DOMAIN claims :
           \E i \in DOMAIN claims[n].sources :
               claims[n].sources[i].alignment_score = cfg.min_alignment_score

\* C10 (as stated): every evidence entry scores strictly more than the
\* configured minimum.
C10_AlignmentAboveMinimum ==
    \A k \in MapCalls :
        \A n \in DOMAIN log[k].out :
            \A i \in DOMAIN log[k].out[n].sources :
                RLt(cfg.min_alignment_score, log[k].out[n].sources[i].alignment_score)

\* Claim.best_source: max(...) returns the first source of the highest score
best_source(claim) ==
    IF claim.sources = <<>> THEN "None"
    ELSE claim.sources[Min({i \in DOMAIN claim.sources :
             \A j \in DOMAIN claim.sources :
                 RLe(claim.sources[j].alignment_score,
                     claim.sources[i].alignment_score)})]

\* the positions of the scored candidates that reach the configured minimum
QualifyingAt(c, scored_sources) ==
    {i \in DOMAIN scored_sources :
        RLe(c.min_alignment_score, scored_sources[i].alignment_score)}

\* candidate i comes before candidate j: a higher score, or the same score
\* and retrieved earlier
RanksBefore(scored_sources, i, j) ==
    \/ RLt(scored_sources[j].alignment_score, scored_sources[i].alignment_score)
    \/ /\ ~RLt(scored_sources[i].alignment_score, scored_sources[j].alignment_score)
       /\ i < j

\* the place of candidate i among the qualifying candidates
RankOf(c, scored_sources, i) ==
    1 + Cardinality({j \in QualifyingAt(c, scored_sources) :
                        RanksBefore(scored_sources, j, i)})

\* C11: after map_to_sources the evidence list of a claim has as many entries
\* as there are qualifying candidates, max_sources_per_claim at most; its
\* k-th entry is the qualifying candidate of rank k, where a higher score
\* ranks first and equal scores rank in retrieval order; and best_source is
\* the first entry (None for an empty list).
C11_EvidenceOrder ==
    \A k \in MapCalls :
        \A n \in DOMAIN log[k].out :
            LET sources == log[k].out[n].sources
                scored  == log[k].traces[n].scored_sources
                qual    == QualifyingAt(cfg, scored)
            IN  /\ Len(sources) = Min({cfg.max_sources_per_claim, Cardinality(qual)})
                /\ \A i \in qual :
                       RankOf(cfg, scored, i) <= Len(sources) =>
                           sources[RankOf(cfg, scored, i)] = scored[i]
                /\ \A i \in DOMAIN sources : i > 1 =>
                       RLe(sources[i].alignment_score, sources[i - 1].alignment_score)
                /\ best_source(log[k].out[n]) =
                       (IF sources = <<>> THEN "None" ELSE sources[1])

\* two different fragments tie on the score, one entry is allowed, and the
\* one retrieved first is the evidence
C11_Witness ==
    /\ pc = "mapped"
    /\ cfg.max_sources_per_claim = 1
    /\ \E n \in DOMAIN claims :
           LET scored == log[1].traces[n].scored_sources
           IN  /\ Len(scored) = 2
               /\ scored[1].chunk_id # scored[2].chunk_id
               /\ scored[1].alignment_score = scored[2].alignment_score
               /\ RLe(cfg.min_alignment_score, scored[1].alignment_score)
               /\ claims[n].sources = <<scored[1]>>
               /\ best_source(claims[n]) = scored[1]

\* the first n of the positions ps of the store, as the list of their chunks
PickFirst(chunks, ps, n) ==
    LET qs == {i \in ps : Cardinality({j \in ps : j < i}) < n}
    IN  [k \in 1..Cardinality(qs) |->
            chunks[CHOOSE i \in qs : Cardinality({j \in qs : j < i}) = k - 1]]

\* the positions of the store whose text contains one of the needles,
\* whatever the case of the letters
HitsOf(needles, chunks) ==
    {i \in DOMAIN chunks : AnyIn(needles, chunks[i])}

\* what each of the three searches returns for a claim, each cut at SearchLimit
SimilarityResults(claim, chunks) == PickFirst(chunks, DOMAIN chunks, SearchLimit)
KeywordResults(claim, chunks) ==
    PickFirst(chunks,
              HitsOf(Keywords(FindAll(WordPattern, claim.text, FALSE)), chunks),
              SearchLimit)
EntityResults(c, claim, chunks) ==
    IF c.enable_entity_matching /\ claim.entities # <<>>
    THEN PickFirst(chunks,
                   HitsOf([k \in DOMAIN claim.entities |-> claim.entities[k].text], chunks),
                   SearchLimit)
    ELSE <<>>

\* no id occurs twice in a list of chunks
DistinctIds(chunks) ==
    \A i, j \in DOMAIN chunks : chunks[i].id = chunks[j].id => i = j

\* C12 (as the code has it): the candidates of a claim are the results of ONE
\* first search, the similarity search when use_semantic_search is on and the
\* keyword search otherwise, in the order of the store, followed by those
\* entity-search results (run only with entities and entity matching on)
\* whose id is not among the candidates yet; each search is cut at 10; the
\* ids of the candidates are distinct whenever the ids of the store are.
C12_CandidateSet ==
    \A k \in MapCalls :
        \A n \in DOMAIN log[k].in :
            LET claim == log[k].in[n]
                cands == log[k].traces[n].potential_sources
                first == IF cfg.use_semantic_search
                         THEN SimilarityResults(claim, store)
                         ELSE KeywordResults(claim, store)
                ents  == EntityResults(cfg, claim, store)
            IN  /\ Len(cands) >= Len(first)
                /\ SubSeq(cands, 1, Len(first)) = first
                /\ ToSet(cands) = ToSet(first) \cup ToSet(ents)
                /\ \A i \in DOMAIN cands : i > Len(first) =>
                       \A j \in 1..(i - 1) : cands[j].id # cands[i].id
                /\ DistinctIds(store) => DistinctIds(cands)

\* the keyword search ran in place of the similarity search, found a
\* fragment, and left out a fragment that the similarity search returns
C12_Witness ==
    /\ pc = "mapped"
    /\ ~cfg.use_semantic_search
    /\ DistinctIds(store)
    /\ \E n \in DOMAIN claims :
           LET cands == log[1].traces[n].potential_sources
           IN  /\ cands # <<>>
               /\ cands = KeywordResults(log[1].in[n], store)
               /\ \E ch \in ToSet(SimilarityResults(log[1].in[n], store)) :
                      ch \notin ToSet(cands)

\* C12 (as stated): the candidates are the union of the similarity-search,
\* keyword-search and entity-search results, and no id occurs twice.
C12_CandidateUnion ==
    \A k \in MapCalls :
        \A n \in DOMAIN log[k].in :
            LET claim == log[k].in[n]
                cands == log[k].traces[n].potential_sources
            IN  /\ ToSet(cands) = ToSet(SimilarityResults(claim, store))
                                  \cup ToSet(KeywordResults(claim, store))
                                  \cup ToSet(EntityResults(cfg, claim, store))
                /\ DistinctIds(cands)

(***************************************************************************)
(* Specification SpecNumeric: SourceMapper._calculate_alignment_score on   *)
(* claims and fragments that carry numbers                                 *)
(***************************************************************************)
MaxNumPieces == 2

NumClaimPieces ==
    { <<"R","e","v","e","n","u","e"," ","w","a","s"," ","$","3","7","8"," ","b","i","l","l","i","o","n">>, <<" ","i","n"," ","2","0","2","2",".">>, <<" ","i","n"," ","2","0","2","1",".">>, <<"R","e","v","e","n","u","e"," ","g","r","e","w">> }

NumFragments ==
    { <<"I","n"," ","2","0","2","1",","," ","A","p","p","l","e","'","s"," ","r","e","v","e","n","u","e"," ","w","a","s"," ","$","3","6","5",".","8"," ","b","i","l","l","i","o","n",".">>,
      <<"I","n"," ","2","0","2","1",","," ","A","p","p","l","e","'","s"," ","r","e","v","e","n","u","e"," ","w","a","s"," ","$","3","7","8"," ","b","i","l","l","i","o","n",".">>,
      <<"I","n"," ","2","0","2","2",","," ","A","p","p","l","e","'","s"," ","r","e","v","e","n","u","e"," ","g","r","e","w",".">>,
      <<"A","p","p","l","e","'","s"," ","r","e","v","e","n","u","e"," ","g","r","e","w",".">> }

\* one claim of a response that is just its text, and a store of two fragments
InitNumeric ==
    /\ pc = "extracted"
    /\ cfg = DefaultConfig
    /\ nlp = None
    /\ text \in Texts(NumClaimPieces, MaxNumPieces) \ {<<>>}
    /\ \E type \in {"numerical", "other"} :
           claims = <<[TextClaim(text, type, <<>>) EXCEPT !.id = 1]>>
    /\ \E x \in NumFragments, y \in NumFragments :
           store = <<DocumentChunk("f1", x, "doc1", "paragraph", "None"),
                     DocumentChunk("f2", y, "doc1", "paragraph", "None")>>
    /\ log = <<>>
    /\ interventions = <<>>
    /\ uuids = 1

\* _calculate_alignment_score of the claim against every fragment of the store
AlignClaim ==
    /\ pc = "extracted"
    /\ log' = Append(log, [op |-> "_calculate_alignment_score",
                           claim |-> claims[1], chunks |-> store,
                           out |-> [i \in DOMAIN store |->
                                      _calculate_alignment_score(cfg, claims[1], store[i])]])
    /\ pc' = "aligned"
    /\ UNCHANGED <<cfg, nlp, text, store, claims, uuids, interventions>>

NextNumeric == AlignClaim

SpecNumeric == InitNumeric /\ [][NextNumeric]_vars

\* the _calculate_alignment_score calls made so far
AlignCalls == {k \in DOMAIN log : log[k].op = "_calculate_alignment_score"}

HasDigit(t) == \E i \in DOMAIN t : t[i] \in DigitSet

\* C13: for a numerical claim whose text contains a digit, the alignment
\* score against a fragment whose text contains no digit is 0.
C13_NoDigitScoresZero ==
    \A k \in AlignCalls :
        \A i \in DOMAIN log[k].chunks :
            (/\ log[k].claim.type = "numerical"
             /\ HasDigit(log[k].claim.text)
             /\ ~HasDigit(log[k].chunks[i].text))
            => log[k].out[i] = Zero

\* the claim of the scenario scored against the fragment without a number,
\* with which it shares the word "revenue"
C13_Witness ==
    /\ pc = "aligned"
    /\ log[1].claim.type = "numerical"
    /\ log[1].claim.text = <<"R","e","v","e","n","u","e"," ","w","a","s"," ","$","3","7","8"," ","b","i","l","l","i","o","n"," ","i","n"," ","2","0","2","2",".">>
    /\ log[1].chunks[1].text = <<"A","p","p","l","e","'","s"," ","r","e","v","e","n","u","e"," ","g","r","e","w",".">>
    /\ log[1].out[1] = Zero
    /\ RLt(Zero, _score_generic_claim(cfg, log[1].claim, log[1].chunks[1]))

\* the numbers written in a text, and the text with its digits and points
\* taken out
NumbersOf(t) == ToSet(FindAll(NumberPattern, t, FALSE))
WithoutNumbers(t) == SelectSeq(t, LAMBDA ch : ch \notin DigitSet \cup {"."})

\* C14 (as stated): for a numerical claim, a fragment in which none of the
\* claim's numbers occurs scores strictly lower than a fragment that differs
\* from it in its numbers only and contains one of the claim's numbers.
C14_SharedNumberScoresHigher ==
    \A k \in AlignCalls :
        \A i, j \in DOMAIN log[k].chunks :
            LET mine  == NumbersOf(log[k].claim.text)
                none  == log[k].chunks[i].text
                some  == log[k].chunks[j].text
            IN  (/\ log[k].claim.type = "numerical"
                 /\ mine \cap NumbersOf(none) = {}
                 /\ mine \cap NumbersOf(some) # {}
                 /\ WithoutNumbers(none) = WithoutNumbers(some))
                => RLt(log[k].out[i], log[k].out[j])

(***************************************************************************)
(* VerificationResult (utils/common.py): the two derived metrics           *)
(***************************************************************************)
\* sum(c.confidence_score for c in claims)
RECURSIVE SumConfidence(_)
SumConfidence(cs) ==
    IF cs = <<>> THEN Zero
    ELSE RAdd(SumConfidence(SubSeq(cs, 1, Len(cs) - 1)), cs[Len(cs)].confidence_score)

\* the sum left undivided
confidence_score_undivided(cs) ==
    IF cs = <<>> THEN Zero ELSE SumConfidence(cs)

\* VerificationResult.confidence_score of a result with the claims cs
confidence_score(cs) ==
    IF cs = <<>> THEN Zero
    ELSE RMul(SumConfidence(cs), Rat(1, Len(cs)))

hallucination_threshold == <<1, 2>>

\* the threshold itself counted as low
hallucination_score_inclusive(cs) ==
    IF cs = <<>> THEN Zero
    ELSE Rat(Cardinality({i \in DOMAIN cs :
                 RLe(cs[i].confidence_score, hallucination_threshold)}), Len(cs))

\* an empty claim list counted as all low
hallucination_score_empty_one(cs) ==
    IF cs = <<>> THEN One
    ELSE Rat(Cardinality({i \in DOMAIN cs :
                 RLt(cs[i].confidence_score, hallucination_threshold)}), Len(cs))

\* VerificationResult.hallucination_score of a result with the claims cs
hallucination_score(cs) ==
    IF cs = <<>> THEN Zero
    ELSE Rat(Cardinality({i \in DOMAIN cs :
                 RLt(cs[i].confidence_score, hallucination_threshold)}), Len(cs))

(***************************************************************************)
(* Specification SpecResult: the metrics of a VerificationResult read any  *)
(* number of times                                                         *)
(***************************************************************************)
MaxResultClaims == 3
MaxReads == 2

ConfidenceSamples == {Zero, <<2, 5>>, <<1, 2>>, <<3, 5>>, One}

\* the scored claims of a result, as many as MaxResultClaims
ResultInputs ==
    { [i \in DOMAIN s |->
          [Claim(i, <<"c">>, "other", i - 1, i, <<>>) EXCEPT !.confidence_score = s[i]]] :
        s \in SeqsUpTo(ConfidenceSamples, MaxResultClaims) }

InitResult ==
    /\ pc = "scored"
    /\ cfg = DefaultConfig
    /\ nlp = None
    /\ text = <<>>
    /\ store = <<>>
    /\ claims \in ResultInputs
    /\ log = <<>>
    /\ interventions = <<>>
    /\ uuids = Len(claims)

\* the metric reads logged so far
Reads == {k \in DOMAIN log : log[k].op \in {"confidence_score", "hallucination_score"}}

\* result.confidence_score, read from a result that holds the claims
ReadConfidenceScore ==
    /\ pc \in {"extracted", "scored"}
    /\ Cardinality(Reads) < MaxReads
    /\ log' = Append(log, [op |-> "confidence_score", in |-> claims,
                           out |-> confidence_score(claims)])
    /\ UNCHANGED <<pc, cfg, nlp, text, store, claims, uuids, interventions>>

\* result.hallucination_score
ReadHallucinationScore ==
    /\ pc \in {"extracted", "scored"}
    /\ Cardinality(Reads) < MaxReads
    /\ log' = Append(log, [op |-> "hallucination_score", in |-> claims,
                           out |-> hallucination_score(claims)])
    /\ UNCHANGED <<pc, cfg, nlp, text, store, claims, uuids, interventions>>

NextResult == ReadConfidenceScore \/ ReadHallucinationScore

SpecResult == InitResult /\ [][NextResult]_vars

\* the confidence scores of a claim list added up from its head
RECURSIVE TotalConfidence(_)
TotalConfidence(cs) ==
    IF cs = <<>> THEN Zero
    ELSE RAdd(Head(cs).confidence_score, TotalConfidence(Tail(cs)))

C16_HallucinationRatio ==
    /\ \A k \in Reads :
           /\ log[k].in = claims
           /\ log[k].op = "hallucination_score" =>
                  IF log[k].in = <<>> THEN log[k].out = Zero
                  ELSE LET low == {i \in DOMAIN log[k].in :
                                      /\ log[k].in[i].confidence_score # hallucination_threshold
                                      /\ RLe(log[k].in[i].confidence_score,
                                             hallucination_threshold)}
                       IN  RMul(log[k].out, Rat(Len(log[k].in), 1))
                               = Rat(Cardinality(low), 1)
    /\ \A k, m \in Reads : log[k].op = log[m].op => log[k].out = log[m].out

\* one claim at exactly 0.5 and one below it, read twice as one half
C16_Witness ==
    /\ Len(claims) = 2
    /\ claims[1].confidence_score = hallucination_threshold
    /\ claims[2].confidence_score = <<2, 5>>
    /\ Len(log) = 2
    /\ \A k \in {1, 2} : log[k].op = "hallucination_score" /\ log[k].out = <<1, 2>>

(***************************************************************************)
(* Specification SpecExtractResult: a VerificationResult built from the    *)
(* claims that extract_claims returns, and its metrics read                *)
(***************************************************************************)
MaxResultPieces == 1

InitExtractResult ==
    /\ pc = "constructed"
    /\ \E c \in ExtractorConfigs, load_ok \in BOOLEAN :
          /\ cfg = _initialize_components(c, load_ok)
          /\ IF c.use_spacy /\ load_ok
             THEN text \in Texts(SpacyPieces, MaxResultPieces) /\ nlp \in SpacyDocs(c, text)
             ELSE text \in Texts(Pieces, MaxResultPieces) /\ nlp = None
    /\ store = <<>>
    /\ claims = <<>>
    /\ log = <<>>
    /\ interventions = <<>>
    /\ uuids = 0

NextExtractResult == ExtractClaims \/ ReadConfidenceScore \/ ReadHallucinationScore

SpecExtractResult == InitExtractResult /\ [][NextExtractResult]_vars

\* C17: extract_claims on the empty string returns the empty list, and both
\* metrics of a result built from that list are 0.
C17_EmptyResponse ==
    text = <<>> =>
        \A k \in DOMAIN log :
            /\ log[k].op = "extract_claims" => log[k].out = <<>>
            /\ k \in Reads => log[k].in = <<>> /\ log[k].out = Zero

\* the empty string extracted by the rule-based strategy and both metrics read
C17_Witness ==
    /\ text = <<>>
    /\ ~cfg.use_spacy
    /\ pc = "extracted"
    /\ Len(log) = 3
    /\ log[1].op = "extract_claims"
    /\ log[2].op = "confidence_score"
    /\ log[3].op = "hallucination_score"

(***************************************************************************)
(* Specification SpecMapFail: map_to_sources against a DocumentStore whose *)
(* search raises for some claims (a store backed by a service)             *)
(***************************************************************************)
MaxFailClaims == 2
MaxFailChunks == 1

\* the first claim of the list at which search is called and raises, 0 if
\* there is none: only the similarity search calls DocumentStore.search
FirstFailure(c, cs, fails) ==
    IF c.use_semantic_search /\ fails \cap DOMAIN cs # {}
    THEN Min(fails \cap DOMAIN cs) ELSE 0

\* the loop of map_to_sources left by an exception at claim stop: the claims
\* before it have been given their sources, the others are as they were
MapUntil(c, cs, chunks, stop) ==
    [i \in DOMAIN cs |->
        IF stop = 0 \/ i < stop
        THEN AttachSources(c, cs[i], MapTrace(c, cs[i], chunks).scored_sources)
        ELSE cs[i]]

InitMapFail ==
    /\ pc = "extracted"
    /\ cfg \in MapperConfigs
    /\ nlp = None
    /\ text = <<>>
    /\ store \in SeqsUpTo(ChunkSamples, MaxFailChunks)
    /\ claims \in { [i \in DOMAIN s |-> [s[i] EXCEPT !.id = i]] :
                      s \in SeqsUpTo(MapClaimSamples, MaxFailClaims) }
    /\ log = <<>>
    /\ interventions = <<>>
    /\ uuids = Len(claims)

\* map_to_sources; search raises for the claims in fails, and nothing in
\* map_to_sources or below it catches an exception
MapToSourcesFailing ==
    /\ pc = "extracted"
    /\ \E fails \in SUBSET DOMAIN claims :
           \E stop \in {FirstFailure(cfg, claims, fails)} :
               /\ claims' = MapUntil(cfg, claims, store, stop)
               /\ log' = Append(log, [op |-> "map_to_sources", in |-> claims,
                                      fails |-> fails, raised |-> stop # 0,
                                      out |-> claims'])
               /\ pc' = IF stop = 0 THEN "mapped" ELSE "raised"
    /\ UNCHANGED <<cfg, nlp, text, store, uuids, interventions>>

NextMapFail == MapToSourcesFailing

SpecMapFail == InitMapFail /\ [][NextMapFail]_vars

\* C19 (as stated): when the search fails for a claim, map_to_sources does not
\* raise; that claim ends without evidence, and every other claim is mapped
\* as it is without the failure.
C19_SearchFailureContained ==
    \A k \in DOMAIN log :
        (log[k].op = "map_to_sources" /\ cfg.use_semantic_search) =>
            /\ ~log[k].raised
            /\ \A n \in DOMAIN log[k].in :
                   IF n \in log[k].fails
                   THEN log[k].out[n].sources = <<>>
                   ELSE log[k].out[n] = map_to_sources(cfg, log[k].in, store)[n]

(***************************************************************************)
(* Specification SpecBackend: a ClaimExtractor is constructed, the backend *)
(* loads or fails to load, and extract_claims is called several times      *)
(***************************************************************************)
MaxExtractCalls == 2

\* the texts of the calls: for the rule-based strategy, and for a loaded backend
RuleTexts  == {<<>>, <<"1",".">>, <<"A","l">>, <<"x"," ","i","s">>, <<"?">>}
SpacyTexts == {<<>>, <<"1",".">>, <<"A","l">>, <<"?">>}

InitBackend ==
    /\ pc = "new"
    /\ cfg \in ExtractorConfigs
    /\ nlp = None
    /\ text = <<>>
    /\ store = <<>>
    /\ claims = <<>>
    /\ log = <<>>
    /\ interventions = <<>>
    /\ uuids = 0

\* ClaimExtractor.__init__: spacy.load is called only when use_spacy is set,
\* and it returns the backend or raises
Construct ==
    /\ pc = "new"
    /\ \E load_ok \in IF cfg.use_spacy THEN BOOLEAN ELSE {TRUE} :
          /\ cfg' = _initialize_components(cfg, load_ok)
          /\ nlp' \in IF cfg.use_spacy /\ load_ok THEN SpacyDocs(cfg, <<>>) ELSE {None}
          /\ log' = Append(log, [op |-> "__init__", use_spacy |-> cfg.use_spacy,
                                 load_ok |-> load_ok])
    /\ pc' = "constructed"
    /\ UNCHANGED <<text, store, claims, uuids, interventions>>

ExtractCalls == {k \in DOMAIN log : log[k].op = "extract_claims"}

\* extract_claims(text) on the constructed extractor; a loaded backend
\* analyses the text of the call
ExtractClaimsOf ==
    /\ pc \in {"constructed", "extracted"}
    /\ Cardinality(ExtractCalls) < MaxExtractCalls
    /\ \E t \in IF nlp.loaded THEN SpacyTexts ELSE RuleTexts :
          \E doc \in IF nlp.loaded THEN SpacyDocs(cfg, t) ELSE {None} :
              /\ text' = t
              /\ nlp' = doc
              /\ claims' = extract_claims(cfg, doc, t, uuids + 1)
              /\ uuids' = uuids + Len(claims')
              /\ log' = Append(log, [op |-> "extract_claims", text |-> t,
                                     first |-> uuids + 1, out |-> claims'])
    /\ pc' = "extracted"
    /\ UNCHANGED <<cfg, store, interventions>>

NextBackend == Construct \/ ExtractClaimsOf

SpecBackend == InitBackend /\ [][NextBackend]_vars

\* C20: when the backend fails to load during construction, construction
\* completes with use_spacy cleared and no backend; and every extract_claims
\* call of an extractor whose use_spacy was off or whose backend did not load
\* returns what the rule-based strategy returns for the text of the call.
C20_BackendFallback ==
    pc # "new" =>
        /\ (log[1].use_spacy /\ ~log[1].load_ok) => (~cfg.use_spacy /\ nlp = None)
        /\ ~(log[1].use_spacy /\ log[1].load_ok) =>
               \A k \in ExtractCalls :
                   log[k].out = _extract_claims_rule_based(cfg, log[k].text, log[k].first)

\* use_spacy was asked for, the load failed, and the second call after it
\* returned claims
C20_Witness ==
    /\ pc = "extracted"
    /\ log[1].use_spacy /\ ~log[1].load_ok
    /\ Cardinality(ExtractCalls) = 2
    /\ log[3].out # <<>>

(***************************************************************************)
(* Specification SpecVerify: VerificationProcessor.verify (processor.py)   *)
(* with the default components, one action per stage it calls in turn      *)
(***************************************************************************)
MaxVerifyPieces == 2
MaxVerifyChunks == 1

VerifyPieces == {<<"I","t"," ","i","s"," ","1","2","."," ">>, <<"I","t"," ","i","s"," ","3","4",".">>, <<"A","l"," ","s","a","w"," ","r","e","d"," ","s","u","n",".">>, <<"w","e"," ","s","a","w"," ","r","e","d"," ","s","u","n","."," ">>}

\* the unsupported scores a ConfidenceScorer handed to the processor may have
UnsupportedScores == {Zero, <<1, 5>>}

\* verify(llm_response, document_store) on a processor built with the default
\* components, or with a ConfidenceScorer of another unsupported score; the
\* linguistic backend is not installed, so that the extractor has fallen back
\* to its rule-based strategy
InitVerify ==
    /\ pc = "constructed"
    /\ \E u \in UnsupportedScores :
           cfg = [_initialize_components(DefaultConfig, FALSE)
                      EXCEPT !.unsupported_claim_score = u]
    /\ nlp = None
    /\ text \in Texts(VerifyPieces, MaxVerifyPieces)
    /\ store \in SeqsUpTo(ChunkSamples, MaxVerifyChunks)
    /\ claims = <<>>
    /\ log = <<>>
    /\ interventions = <<>>
    /\ uuids = 0

\* the stages in the order of the statements of verify
NextVerify == ExtractClaims \/ MapToSources \/ ScoreClaims

SpecVerify == InitVerify /\ [][NextVerify]_vars

\* the operations logged so far, in order
Ops == [k \in DOMAIN log |-> log[k].op]

\* two claim lists that differ at most in the ids of their claims
SameClaims(xs, ys) ==
    /\ Len(xs) = Len(ys)
    /\ \A n \in DOMAIN xs : [xs[n] EXCEPT !.id = 0] = [ys[n] EXCEPT !.id = 0]

C18_EmptyStore ==
    store = <<>> =>
        \A k \in DOMAIN log :
            log[k].op \in {"map_to_sources", "score_claims"} =>
                /\ Len(log[k].out) = Len(log[k].in)
                /\ \A n \in DOMAIN log[k].out :
                       /\ log[k].out[n].sources = <<>>
                       /\ log[k].out[n].verification_notes = "No supporting sources found"
                       /\ log[k].op = "score_claims" =>
                              log[k].out[n].confidence_score = cfg.unsupported_claim_score

\* two claims mapped against the empty store and scored 0.2, the unsupported
\* score of the scorer
C18_Witness ==
    /\ store = <<>>
    /\ pc = "scored"
    /\ cfg.unsupported_claim_score = <<1, 5>>
    /\ Len(claims) = 2
    /\ \A n \in DOMAIN claims :
           /\ claims[n].sources = <<>>
           /\ claims[n].confidence_score = <<1, 5>>

(***************************************************************************)
(* Corrections (handlers/corrections.py)                                   *)
(***************************************************************************)
\* str.upper() on one character
UpperChar(c) ==
    IF c \in LowerSet THEN UpperSeq[CHOOSE i \in DOMAIN LowerSeq : LowerSeq[i] = c]
    ELSE c

\* Intervention(...); a corrected_text of None is the empty text, which the
\* code treats alike
Intervention(claim_id, intervention_type, confidence, corrected_text) ==
    [claim_id |-> claim_id, intervention_type |-> intervention_type,
     confidence |-> confidence, corrected_text |-> corrected_text]

\* VerificationResult.requires_intervention
requires_intervention(ivs) ==
    \E i \in DOMAIN ivs : ivs[i].intervention_type # "none"

\* the tolerance of the position test: text[start_idx:end_idx + 10]
WindowSlack == 10

\* claim.start_idx = match_pos; claim.end_idx = match_pos + len(claim.text)
Relocated(claim, match_pos) ==
    [claim EXCEPT !.start_idx = match_pos, !.end_idx = match_pos + Len(claim.text)]

\* the opening of the three helpers: the claim as the helper goes on with it,
\* and found = FALSE when the helper returns the text as it is
Locate(t, claim) ==
    IF Contains(Slice(t, claim.start_idx, claim.end_idx + WindowSlack), claim.text)
    THEN [found |-> TRUE, claim |-> claim]
    ELSE IF Find(t, claim.text) = 0 - 1
         THEN [found |-> FALSE, claim |-> claim]
         ELSE [found |-> TRUE, claim |-> Relocated(claim, Find(t, claim.text))]

ConservativeQualifiers ==
    <<<<"m","a","y">>, <<"m","i","g","h","t">>, <<"c","o","u","l","d">>, <<"r","e","p","o","r","t","e","d","l","y">>, <<"a","c","c","o","r","d","i","n","g"," ","t","o"," ","s","o","u","r","c","e","s">>,
      <<"s","e","e","m","s"," ","t","o">>, <<"a","p","p","e","a","r","s"," ","t","o">>>>

StrongQualifiers ==
    <<<<"u","n","c","e","r","t","a","i","n"," ","i","f">>, <<"l","i","m","i","t","e","d"," ","e","v","i","d","e","n","c","e"," ","s","u","g","g","e","s","t","s">>, <<"n","o","t"," ","c","l","e","a","r","l","y"," ","s","u","p","p","o","r","t","e","d">>,
      <<"s","o","u","r","c","e","s"," ","p","a","r","t","i","a","l","l","y"," ","i","n","d","i","c","a","t","e">>, <<"q","u","e","s","t","i","o","n","a","b","l","e"," ","w","h","e","t","h","e","r">>,
      <<"u","n","v","e","r","i","f","i","e","d"," ","c","l","a","i","m"," ","t","h","a","t">>, <<"l","i","m","i","t","e","d"," ","s","u","p","p","o","r","t"," ","f","o","r"," ","t","h","e"," ","c","l","a","i","m"," ","t","h","a","t">>>>

\* qualifiers[hash(claim.text) % len(qualifiers)] for the hash value h
Qualifier(conservative, h) ==
    IF conservative THEN ConservativeQualifiers[(h % Len(ConservativeQualifiers)) + 1]
    ELSE StrongQualifiers[(h % Len(StrongQualifiers)) + 1]

LinkingVerbs == {<<"i","s"," ">>, <<"a","r","e"," ">>, <<"w","a","s"," ">>, <<"w","e","r","e"," ">>}

\* the number of characters of [a-z]* at offset k of t
LowerRun(t, k) ==
    Min({n \in 0..(Len(t) - k) : k + n = Len(t) \/ t[k + n + 1] \notin LowerSet})

\* the end of group 1 when prefix[a-z]+ (is|are|was|were)  matches at the start
\* of t, where prefix has matched the first k characters; 0 when it does not
VerbAfterWord(t, k) ==
    IF /\ LowerRun(t, k) >= 1
       /\ k + LowerRun(t, k) < Len(t)
       /\ t[k + LowerRun(t, k) + 1] = " "
       /\ \E v \in LinkingVerbs : MatchAt(t, v, k + LowerRun(t, k) + 1)
    THEN k + LowerRun(t, k) + 1
    ELSE 0

\* ^([A-Z][a-z]+ )(is|are|was|were)
XIsGroup(t) == IF t # <<>> /\ t[1] \in UpperSet THEN VerbAfterWord(t, 1) ELSE 0

\* ^(The [a-z]+ )(is|are|was|were)
TheXIsGroup(t) == IF MatchAt(t, <<"T","h","e"," ">>, 0) THEN VerbAfterWord(t, 4) ELSE 0

\* re.sub(pattern, r'\1' + qualifier + r' \2 ', claim_text) with group 1
\* ending at g: the qualifier and a space are put between the two groups
InsertAfter(t, g, q) == Slice(t, 0, g) \o q \o <<" ">> \o Slice(t, g, Len(t))

\* qualified_text of _add_uncertainty_qualifier
QualifiedText(claim_text, q) ==
    IF XIsGroup(claim_text) > 0 THEN InsertAfter(claim_text, XIsGroup(claim_text), q)
    ELSE IF TheXIsGroup(claim_text) > 0
         THEN InsertAfter(claim_text, TheXIsGroup(claim_text), q)
    ELSE IF claim_text # <<>> /\ claim_text[1] \in UpperSet
         THEN <<UpperChar(q[1])>> \o Slice(q, 1, Len(q)) \o <<" ">> \o claim_text
    ELSE q \o <<" ">> \o claim_text

\* text[:claim.start_idx] + piece + text[end:]
Replaced(t, claim, piece, end) ==
    Slice(t, 0, claim.start_idx) \o piece \o Slice(t, end, Len(t))

\* _add_uncertainty_qualifier(text, claim, conservative), with h the value of
\* hash(claim.text): the text returned, the claim as the helper leaves it, and
\* the name of the helper for the trace
AddQualifierAt(t, claim, q) ==
    [text  |-> Replaced(t, claim,
                        QualifiedText(Slice(t, claim.start_idx, claim.end_idx), q),
                        claim.end_idx),
     claim |-> claim, helper |-> "_add_uncertainty_qualifier"]

_add_uncertainty_qualifier(t, claim, conservative, h) ==
    IF Locate(t, claim).found
    THEN AddQualifierAt(t, Locate(t, claim).claim, Qualifier(conservative, h))
    ELSE [text |-> t, claim |-> claim, helper |-> "_add_uncertainty_qualifier"]

\* the capitalization adjustment of _apply_correction
Adjusted(correction, starts_with_capital) ==
    IF starts_with_capital /\ correction[1] \notin UpperSet
    THEN <<UpperChar(correction[1])>> \o Slice(correction, 1, Len(correction))
    ELSE IF ~starts_with_capital /\ correction[1] \in UpperSet
         THEN <<LowerChar(correction[1])>> \o Slice(correction, 1, Len(correction))
         ELSE correction

ApplyCorrectionAt(t, claim, correction) ==
    [text  |-> Replaced(t, claim,
                        Adjusted(correction, claim.start_idx < Len(t)
                                             /\ t[claim.start_idx + 1] \in UpperSet),
                        claim.end_idx),
     claim |-> claim, helper |-> "_apply_correction"]

\* _apply_correction(text, claim, correction) for a non-empty correction
_apply_correction(t, claim, correction) ==
    IF Locate(t, claim).found
    THEN ApplyCorrectionAt(t, Locate(t, claim).claim, correction)
    ELSE [text |-> t, claim |-> claim, helper |-> "_apply_correction"]

\* t[i] for a Python index i, negative indexes counting from the end
At(t, i) == IF i < 0 THEN t[Len(t) + i + 1] ELSE t[i + 1]

\* while end < len(text) and text[end].isspace(): end += 1
SkipSpaces(t, end) ==
    Min({e \in end..Len(t) : e = Len(t) \/ t[e + 1] \notin SpaceSet})

RemoveClaimAt(t, claim) ==
    [text  |-> IF claim.end_idx < Len(t) /\ At(t, claim.end_idx - 1) \in {".", "!", "?"}
               THEN Replaced(t, claim, <<>>, SkipSpaces(t, claim.end_idx))
               ELSE Replaced(t, claim, <<>>, claim.end_idx),
     claim |-> claim, helper |-> "_remove_claim"]

\* _remove_claim(text, claim)
_remove_claim(t, claim) ==
    IF Locate(t, claim).found
    THEN RemoveClaimAt(t, Locate(t, claim).claim)
    ELSE [text |-> t, claim |-> claim, helper |-> "_remove_claim"]

\* an iteration that calls no helper
NoChange(t, claim) == [text |-> t, claim |-> claim, helper |-> "None"]

\* the loop body of _conservative_correction for a claim with intervention iv
ConservativeStep(t, claim, iv, h) ==
    IF iv.intervention_type = "uncertainty"
    THEN _add_uncertainty_qualifier(t, claim, TRUE, h)
    ELSE IF /\ iv.intervention_type = "correction"
            /\ RLt(<<4, 5>>, iv.confidence)
            /\ iv.corrected_text # <<>>
         THEN _apply_correction(t, claim, iv.corrected_text)
         ELSE NoChange(t, claim)

\* the loop body of _balanced_correction
BalancedStep(t, claim, iv, h) ==
    IF iv.intervention_type = "uncertainty"
    THEN _add_uncertainty_qualifier(t, claim, FALSE, h)
    ELSE IF /\ iv.intervention_type = "correction"
            /\ RLt(<<3, 5>>, iv.confidence)
            /\ iv.corrected_text # <<>>
         THEN _apply_correction(t, claim, iv.corrected_text)
    ELSE IF iv.intervention_type = "removal" /\ RLt(claim.confidence_score, <<1, 5>>)
         THEN _remove_claim(t, claim)
         ELSE NoChange(t, claim)

\* the loop body of _aggressive_correction
AggressiveStep(t, claim, iv, h) ==
    IF iv.intervention_type = "uncertainty"
    THEN IF claim.sources # <<>> /\ RLt(<<2, 5>>, best_source(claim).alignment_score)
         THEN _apply_correction(t, claim, best_source(claim).text_excerpt)
         ELSE _add_uncertainty_qualifier(t, claim, FALSE, h)
    ELSE IF iv.intervention_type = "correction"
         THEN IF iv.corrected_text # <<>>
              THEN _apply_correction(t, claim, iv.corrected_text)
              ELSE IF claim.sources # <<>>
                   THEN _apply_correction(t, claim, best_source(claim).text_excerpt)
                   ELSE NoChange(t, claim)
    ELSE IF iv.intervention_type = "removal" /\ RLt(claim.confidence_score, <<3, 10>>)
         THEN _remove_claim(t, claim)
         ELSE NoChange(t, claim)

\* the index of the first intervention with the claim's id, 0 when there is none
InterventionFor(ivs, claim) ==
    IF \A i \in DOMAIN ivs : ivs[i].claim_id # claim.id THEN 0
    ELSE Min({i \in DOMAIN ivs : ivs[i].claim_id = claim.id})

\* one iteration of the loop of a strategy; any name but conservative and
\* aggressive selects the balanced strategy
StrategyStep(strategy, t, claim, ivs, h) ==
    IF InterventionFor(ivs, claim) = 0 THEN NoChange(t, claim)
    ELSE IF strategy = "conservative"
         THEN ConservativeStep(t, claim, ivs[InterventionFor(ivs, claim)], h)
    ELSE IF strategy = "aggressive"
         THEN AggressiveStep(t, claim, ivs[InterventionFor(ivs, claim)], h)
    ELSE BalancedStep(t, claim, ivs[InterventionFor(ivs, claim)], h)

\* all_claims, as the indexes of verification_result.claims in ascending order
\* of start_idx (not the order of the code)
RECURSIVE all_claims_ascending(_, _)
all_claims_ascending(cs, left) ==
    IF left = {} THEN <<>>
    ELSE <<Min({j \in left : \A k \in left : cs[j].start_idx <= cs[k].start_idx})>> \o
         all_claims_ascending(cs, left \
             {Min({j \in left : \A k \in left : cs[j].start_idx <= cs[k].start_idx})})

\* all_claims = sorted(claims, key=start_idx, reverse=True), as the indexes of
\* the claims left: the sort is stable, equal keys stay in list order
RECURSIVE all_claims(_, _)
all_claims(cs, left) ==
    IF left = {} THEN <<>>
    ELSE <<Min({j \in left : \A k \in left : cs[k].start_idx <= cs[j].start_idx})>> \o
         all_claims(cs, left \
             {Min({j \in left : \A k \in left : cs[k].start_idx <= cs[j].start_idx})})

\* hash(text): Python salts string hashes per process; seed stands for the salt
hash(seed, t) == seed + Len(t)

\* the loop of a strategy over the claims of order: the corrected text, the
\* claims as the helpers leave them, and one trace record per iteration
RECURSIVE CorrectLoop(_, _, _, _, _, _, _)
RECURSIVE CorrectNext(_, _, _, _, _, _, _, _)
CorrectLoop(strategy, ivs, seed, order, t, cs, trace) ==
    IF order = <<>> THEN [text |-> t, claims |-> cs, trace |-> trace]
    ELSE CorrectNext(strategy, ivs, seed, order, t, cs, trace,
                     StrategyStep(strategy, t, cs[Head(order)], ivs,
                                  hash(seed, cs[Head(order)].text)))
CorrectNext(strategy, ivs, seed, order, t, cs, trace, r) ==
    CorrectLoop(strategy, ivs, seed, Tail(order), r.text,
                [cs EXCEPT ![Head(order)] = r.claim],
                Append(trace, [claim |-> Head(order), before |-> t,
                               recorded |-> cs[Head(order)], helper |-> r.helper,
                               after |-> r.text, left |-> r.claim]))

\* generate_corrected_response(verification_result, strategy)
generate_corrected_response(strategy, t, cs, ivs, seed) ==
    IF ~requires_intervention(ivs) THEN [text |-> t, claims |-> cs, trace |-> <<>>]
    ELSE CorrectLoop(strategy, ivs, seed, all_claims(cs, DOMAIN cs), t, cs, <<>>)

(***************************************************************************)
(* Specification SpecCorrect: generate_corrected_response on a             *)
(* VerificationResult (text, claims, interventions)                        *)
(***************************************************************************)
MaxCorrectClaims == 2

CorrectResponse == <<"A","l"," ","i","s"," ","x","."," ","w","e"," ","g","o","."," ","T","h","e"," ","o","x"," ","i","s"," ","y",".">>

\* claims of CorrectResponse: three at their spans, one whose text lies within
\* the tolerance of its span, one whose text is not in the response, one whose
\* text lies elsewhere
CorrectClaimSamples ==
    { [Claim(0, <<"A","l"," ","i","s"," ","x",".">>, "other", 0, 8, <<>>) EXCEPT !.confidence_score = <<1, 10>>],
      [Claim(0, <<"w","e"," ","g","o",".">>, "other", 9, 15, <<>>) EXCEPT
          !.confidence_score = <<1, 4>>,
          !.sources = <<SourceReference("a", "doc1", <<"w","e"," ","r","a","n",".">>, <<1, 2>>)>>],
      [Claim(0, <<"T","h","e"," ","o","x"," ","i","s"," ","y",".">>, "other", 16, 28, <<>>) EXCEPT
          !.confidence_score = <<1, 2>>,
          !.sources = <<SourceReference("b", "doc1", <<"A","n"," ","o","x",".">>, <<3, 10>>)>>],
      [Claim(0, <<"w","e"," ","g","o",".">>, "other", 3, 9, <<>>) EXCEPT !.confidence_score = <<1, 10>>],
      [Claim(0, <<"n","o",".">>, "other", 9, 12, <<>>) EXCEPT !.confidence_score = <<1, 10>>],
      [Claim(0, <<"w","e"," ","g","o",".">>, "other", 20, 26, <<>>) EXCEPT !.confidence_score = <<1, 10>>] }

InterventionKinds ==
    {"none", "uncertainty", "correction_high", "correction_low", "correction_empty", "removal"}

InterventionOf(kind, claim_id) ==
    CASE kind = "correction_high" ->
             Intervention(claim_id, "correction", <<9, 10>>, <<"B","o"," ","i","s"," ","z",".">>)
      [] kind = "correction_low" ->
             Intervention(claim_id, "correction", <<7, 10>>, <<"B","o"," ","i","s"," ","z",".">>)
      [] kind = "correction_empty" ->
             Intervention(claim_id, "correction", <<9, 10>>, <<>>)
      [] OTHER -> Intervention(claim_id, kind, <<1, 2>>, <<>>)

Strategies == {"conservative", "balanced", "aggressive"}
HashSeeds  == {0, 3}

InitCorrect ==
    /\ pc = "scored"
    /\ cfg = DefaultConfig
    /\ nlp = None
    /\ text = CorrectResponse
    /\ store = <<>>
    /\ claims \in { [i \in DOMAIN s |-> [s[i] EXCEPT !.id = i]] :
                      s \in SeqsUpTo(CorrectClaimSamples, MaxCorrectClaims) }
    /\ log = <<>>
    /\ uuids = Len(claims)
    /\ \E kinds \in [DOMAIN claims -> InterventionKinds] :
           interventions = [i \in DOMAIN claims |-> InterventionOf(kinds[i], i)]

GenerateCorrectedResponse ==
    /\ pc = "scored"
    /\ \E strategy \in Strategies, seed \in HashSeeds :
           \E r \in {generate_corrected_response(strategy, text, claims,
                                                 interventions, seed)} :
               /\ claims' = r.claims
               /\ log' = Append(log, [op |-> "generate_corrected_response",
                                      strategy |-> strategy, in |-> claims,
                                      out |-> r.text, trace |-> r.trace])
    /\ pc' = "corrected"
    /\ UNCHANGED <<cfg, nlp, text, store, uuids, interventions>>

NextCorrect == GenerateCorrectedResponse

SpecCorrect == InitCorrect /\ [][NextCorrect]_vars

CorrectCalls == {k \in DOMAIN log : log[k].op = "generate_corrected_response"}

\* the iterations of a call that called a helper
HelperCalls(k) == {n \in DOMAIN log[k].trace : log[k].trace[n].helper # "None"}

\* C21 (as stated): whenever a helper is called for a claim whose text is not
\* at its recorded span of the current text, the helper searches the text for
\* the claim's text: it goes on at the position found, and returns the text
\* unchanged when there is none.
C21_FallbackWhenDisplaced ==
    \A k \in CorrectCalls : \A n \in HelperCalls(k) :
        LET e == log[k].trace[n]
        IN  Slice(e.before, e.recorded.start_idx, e.recorded.end_idx) # e.recorded.text =>
                IF Find(e.before, e.recorded.text) = 0 - 1
                THEN e.after = e.before
                ELSE e.left.start_idx = Find(e.before, e.recorded.text)

\* C22 (as stated): generate_corrected_response leaves the original response
\* and every claim of the VerificationResult as they were.
C22_ResultReadOnly ==
    \A k \in CorrectCalls :
        /\ text = CorrectResponse
        /\ claims = log[k].in

\* the claims have pairwise disjoint spans that hold their texts in t
DisjointMatching(t, cs) ==
    /\ \A i \in DOMAIN cs :
           /\ cs[i].start_idx < cs[i].end_idx
           /\ Slice(t, cs[i].start_idx, cs[i].end_idx) = cs[i].text
    /\ \A i, j \in DOMAIN cs :
           i # j => (cs[i].end_idx <= cs[j].start_idx \/ cs[j].end_idx <= cs[i].start_idx)

\* C30: under every strategy the claims are processed in descending order of
\* start_idx; when the claims have pairwise disjoint spans that match the
\* original response, at each iteration the working copy equals the original
\* response before the claim's end_idx, and the claim's recorded span holds the
\* claim's text.
C30_SpansHoldWhenProcessed ==
    \A k \in CorrectCalls :
        /\ \A m, n \in DOMAIN log[k].trace :
               m < n => log[k].in[log[k].trace[m].claim].start_idx >=
                        log[k].in[log[k].trace[n].claim].start_idx
        /\ DisjointMatching(text, log[k].in) =>
               \A n \in DOMAIN log[k].trace :
                   LET e == log[k].trace[n]
                   IN  /\ e.recorded = log[k].in[e.claim]
                       /\ Slice(e.before, 0, e.recorded.end_idx) =
                              Slice(text, 0, e.recorded.end_idx)
                       /\ Slice(e.before, e.recorded.start_idx, e.recorded.end_idx) =
                              e.recorded.text

\* two disjoint claims at their spans were both edited, the later one first,
\* and the first edit changed the length of the working copy
C30_Witness ==
    /\ pc = "corrected"
    /\ \E k \in CorrectCalls :
           /\ DisjointMatching(text, log[k].in)
           /\ Len(log[k].trace) = 2
           /\ \A n \in {1, 2} : log[k].trace[n].after # log[k].trace[n].before
           /\ Len(log[k].trace[1].after) # Len(text)
           /\ log[k].in[1].start_idx < log[k].in[2].start_idx

(***************************************************************************)
(* Specification SpecConcurrent: the loop bodies of map_to_sources and     *)
(* score_claims run claim by claim in any order, and may stop anywhere     *)
(***************************************************************************)
MaxConcurrentClaims == 2

\* the body of the loop of score_claims for claims[i], reading the evidence of
\* the first claim of the list (not the code)
ScoreAt_first(c, cs, i) ==
    [cs EXCEPT ![i].confidence_score = _calculate_claim_confidence(c, cs[1])]

\* the body of the loop of map_to_sources for claims[i]
MapAt(c, cs, i, chunks) ==
    [cs EXCEPT ![i] = AttachSources(c, cs[i], MapTrace(c, cs[i], chunks).scored_sources)]

\* the body of the loop of score_claims for claims[i]
ScoreAt(c, cs, i) ==
    [cs EXCEPT ![i].confidence_score = _calculate_claim_confidence(c, cs[i])]

\* the claims have been extracted; pc holds the stage each claim is at
InitConcurrent ==
    /\ cfg = DefaultConfig
    /\ nlp = None
    /\ text = <<>>
    /\ store \in {<<>>} \cup {<<ch>> : ch \in ChunkSamples}
    /\ claims \in { [i \in DOMAIN s |-> [s[i] EXCEPT !.id = i]] :
                      s \in SeqsUpTo(MapClaimSamples, MaxConcurrentClaims) }
    /\ pc = [i \in DOMAIN claims |-> "extracted"]
    /\ log = <<[op |-> "extract_claims", out |-> claims]>>
    /\ interventions = <<>>
    /\ uuids = Len(claims)

MapClaim ==
    \E i \in DOMAIN claims :
        /\ pc[i] = "extracted"
        /\ claims' = MapAt(cfg, claims, i, store)
        /\ pc' = [pc EXCEPT ![i] = "mapped"]
        /\ UNCHANGED <<cfg, nlp, text, store, log, uuids, interventions>>

ScoreClaim ==
    \E i \in DOMAIN claims :
        /\ pc[i] = "mapped"
        /\ claims' = ScoreAt(cfg, claims, i)
        /\ pc' = [pc EXCEPT ![i] = "scored"]
        /\ UNCHANGED <<cfg, nlp, text, store, log, uuids, interventions>>

NextConcurrent == MapClaim \/ ScoreClaim

SpecConcurrent == InitConcurrent /\ [][NextConcurrent]_vars

\* the sequential run: score_claims(map_to_sources(claims, store))
Sequential(c, cs, chunks) == score_claims(c, map_to_sources(c, cs, chunks))

SameAsSequential(seq) ==
    \A i \in DOMAIN claims :
        /\ pc[i] = "extracted" => claims[i] = log[1].out[i]
        /\ pc[i] \in {"mapped", "scored"} =>
               /\ claims[i].sources = seq[i].sources
               /\ claims[i].verification_notes = seq[i].verification_notes
        /\ pc[i] = "scored" => claims[i] = seq[i]

\* C23: in every state of every interleaving of the per-claim map and score
\* steps (a cancellation may stop the run in any of them), each claim that has
\* been mapped has the evidence, and each claim that has been scored the
\* confidence, of the sequential run on the same input; claims not yet
\* processed are untouched, and no step writes the fragment store.
C23_NoCrossClaimInteraction ==
    /\ [](\E seq \in {Sequential(cfg, log[1].out, store)} : SameAsSequential(seq))
    /\ [][store' = store]_vars

\* the second claim has been mapped and scored with evidence while the first
\* has not been mapped yet
C23_Witness ==
    /\ Len(claims) = 2
    /\ pc[1] = "extracted"
    /\ pc[2] = "scored"
    /\ claims[2].sources # <<>>
    /\ claims[1].text # claims[2].text

(***************************************************************************)
(* Specification SpecScenario: the claim "Apple Inc. was founded in 1976." *)
(* is extracted and mapped against fragments that hold the founding date   *)
(***************************************************************************)
MaxScenarioChunks == 2

FoundingClaim == <<"A","p","p","l","e"," ","I","n","c","."," ","w","a","s"," ","f","o","u","n","d","e","d"," ","i","n"," ","1","9","7","6",".">>

FoundingFragments ==
    { DocumentChunk("a", <<"f","o","u","n","d","e","d"," ","o","n"," ","A","p","r","i","l"," ","1",","," ","1","9","7","6">>, "doc1", "None", "None"),
      DocumentChunk("b", <<"A","p","p","l","e"," ","w","a","s"," ","f","o","u","n","d","e","d"," ","o","n"," ","A","p","r","i","l"," ","1",","," ","1","9","7","6"," ","b","y"," ","S","t","e","v","e"," ","J","o","b","s",".">>, "doc1", "None", "None"),
      DocumentChunk("c", <<"I","t"," ","w","a","s"," ","f","o","u","n","d","e","d"," ","o","n"," ","A","p","r","i","l"," ","1",","," ","1","9","7","6",".">>, "doc2", "None", "None") }

\* what a loaded backend returns for the response: one sentence with a verb
\* and a noun; like_num holds of the token 1976; the sentence may or may not
\* carry a DATE tag and the ORG entity "Apple Inc."
FoundingDocs ==
    {[loaded |-> TRUE, windows |-> <<>>,
      sents |-> <<[start_char |-> 0, end_char |-> Len(FoundingClaim), pos_ok |-> TRUE,
                   num |-> TRUE, date |-> d, ents |-> e]>>] :
        d \in BOOLEAN,
        e \in {<<>>, <<[start_char |-> 0, end_char |-> 10, label |-> "ORG"]>>}}

InitScenario ==
    /\ pc = "constructed"
    /\ text = FoundingClaim
    /\ \E load_ok \in BOOLEAN :
          /\ cfg = _initialize_components(DefaultConfig, load_ok)
          /\ nlp \in IF load_ok THEN FoundingDocs ELSE {None}
    /\ store \in SeqsUpTo(FoundingFragments, MaxScenarioChunks) \ {<<>>}
    /\ claims = <<>>
    /\ log = <<>>
    /\ interventions = <<>>
    /\ uuids = 0

NextScenario == ExtractClaims \/ MapToSources

SpecScenario == InitScenario /\ [][NextScenario]_vars

\* C24 (as stated): under either strategy the extractor returns the claim
\* "Apple Inc. was founded in 1976." with type temporal or entity, and mapping
\* gives that claim a best alignment score above 0 and a non-empty evidence list.
C24_FoundingScenario ==
    pc \in {"extracted", "mapped"} =>
        \E i \in DOMAIN claims :
            /\ claims[i].text = FoundingClaim
            /\ claims[i].type \in {"temporal", "entity"}
            /\ pc = "mapped" =>
                   /\ claims[i].sources # <<>>
                   /\ RLt(Zero, best_source(claims[i]).alignment_score)

(***************************************************************************)
(* The base confidence, stated from the alignments of the evidence         *)
(***************************************************************************)
AlignmentsOf(claim) == {claim.sources[i].alignment_score : i \in DOMAIN claim.sources}
HighestAlignment(claim) ==
    CHOOSE x \in AlignmentsOf(claim) : \A y \in AlignmentsOf(claim) : RLe(y, x)
LowestAlignment(claim) ==
    CHOOSE x \in AlignmentsOf(claim) : \A y \in AlignmentsOf(claim) : RLe(x, y)
MeanAlignment(claim) ==
    Rat(Num(SumScore(claim.sources)), Den(SumScore(claim.sources)) * Len(claim.sources))
BlendedAlignment(claim) ==
    RAdd(RMul(<<7, 10>>, HighestAlignment(claim)), RMul(<<3, 10>>, MeanAlignment(claim)))
AgreementBonus(claim) ==
    IF 5 * Len(claim.sources) >= 20 THEN <<1, 5>> ELSE Rat(5 * Len(claim.sources), 100)
HasAgreement(claim) ==
    Len(claim.sources) >= 2 /\ RLt(<<1, 2>>, LowestAlignment(claim))
ExpectedBase(claim) ==
    IF HasAgreement(claim)
    THEN LET sum == RAdd(BlendedAlignment(claim), AgreementBonus(claim))
         IN  IF RLt(One, sum) THEN One ELSE sum
    ELSE BlendedAlignment(claim)

\* the calls of score_claims
ScoreCalls == {k \in DOMAIN log : log[k].op = "score_claims"}

\* C25: for a claim with evidence the base confidence is 0.7 x the highest
\* alignment + 0.3 x the mean alignment; the bonus min(0.2, 0.05 x number of
\* sources) is added exactly when the claim has at least two sources and its
\* lowest alignment is strictly greater than 0.5, and the sum is then capped
\* at 1.0; the score given to the claim is computed from this base.
C25_BaseConfidence ==
    \A k \in ScoreCalls :
        \A i \in DOMAIN log[k].in :
            log[k].in[i].sources # <<>> =>
                /\ _calculate_base_confidence(log[k].in[i]) = ExpectedBase(log[k].in[i])
                /\ log[k].out[i].confidence_score =
                       RMax(Zero, RMin(One,
                           _apply_confidence_adjustments(log[k].in[i],
                               _apply_claim_type_weighting(cfg, log[k].in[i],
                                   ExpectedBase(log[k].in[i])))))

\* a claim of two sources aligned 0.6 and 1.0 was scored: 0.7 x 1.0 + 0.3 x 0.8
\* with the bonus 0.1 is 1.04, capped at 1.0, and the claim's score is 1.0
C25_Witness ==
    /\ pc = "scored"
    /\ cfg.claim_type_weights = DefaultWeights
    /\ \E i \in DOMAIN log[1].in :
          /\ Len(log[1].in[i].sources) = 2
          /\ LowestAlignment(log[1].in[i]) = <<3, 5>>
          /\ HighestAlignment(log[1].in[i]) = <<1, 1>>
          /\ BlendedAlignment(log[1].in[i]) = <<47, 50>>
          /\ _calculate_base_confidence(log[1].in[i]) = One
          /\ log[1].in[i].type = "entity"
          /\ log[1].out[i].confidence_score = One

(***************************************************************************)
(* The type weighting, stated from the weight table                        *)
(***************************************************************************)
\* the weight of the claim's type, 1 for a type without an entry
TableWeight(claim) ==
    IF \E ty \in DOMAIN cfg.claim_type_weights : ty = claim.type
    THEN cfg.claim_type_weights[claim.type]
    ELSE <<1, 1>>

\* base + (weight - 1) x base x (1 - base)
DiminishingBoost(base, weight) ==
    RAdd(base, RMul(RSub(weight, One), RMul(base, RSub(One, base))))

\* the weighting as stated: the boost over 1, the product under 1
StatedWeighting(base, weight) ==
    IF RLt(One, weight) THEN DiminishingBoost(base, weight)
    ELSE IF RLt(weight, One) THEN RMul(base, weight)
    ELSE base

Clamped(x) == IF RLt(x, Zero) THEN Zero ELSE IF RLt(One, x) THEN One ELSE x

\* the claims with evidence that a call of score_claims was given, as pairs
\* of call and index
WeightedClaims == {<<k, i>> \in ScoreCalls \X (1..MaxScoreClaims) :
                       i \in DOMAIN log[k].in /\ log[k].in[i].sources # <<>>}

\* C26 (as stated): for a base confidence in [0, 1] the type weighting
\* returns base + (weight - 1) x base x (1 - base) for a weight over 1, a
\* value that is at least base and at most 1, base x weight for a weight
\* under 1, and base for a weight of exactly 1 or a type without a weight.
C26_TypeWeightingAsStated ==
    \A p \in WeightedClaims :
        \E claim \in {log[p[1]].in[p[2]]} :
        \E base \in {_calculate_base_confidence(claim)} :
        \E weight \in {TableWeight(claim)} :
            (RLe(Zero, base) /\ RLe(base, One)) =>
                /\ _apply_claim_type_weighting(cfg, claim, base) = StatedWeighting(base, weight)
                /\ RLt(One, weight) =>
                       /\ RLe(base, StatedWeighting(base, weight))
                       /\ RLe(StatedWeighting(base, weight), One)

\* C26 (as the code has it): for a base confidence in [0, 1] the type
\* weighting returns the stated value clamped to [0, 1]: for a weight over 1
\* and at most 2 the boost itself, which is at least base and at most 1; for
\* a weight over 2 the boost or, where the boost passes 1, 1.0; for a weight
\* from 0 to under 1 base x weight; for a negative weight 0.0; for a weight
\* of exactly 1 or a type without a weight base. The claim's score is
\* computed from this value.
C26_TypeWeightingClamped ==
    \A p \in WeightedClaims :
        \E claim \in {log[p[1]].in[p[2]]} :
        \E base \in {_calculate_base_confidence(claim)} :
        \E weight \in {TableWeight(claim)} :
        \E weighted \in {_apply_claim_type_weighting(cfg, claim, base)} :
            (RLe(Zero, base) /\ RLe(base, One)) =>
                /\ weighted = Clamped(StatedWeighting(base, weight))
                /\ (RLt(One, weight) /\ RLe(weight, <<2, 1>>)) =>
                       /\ weighted = DiminishingBoost(base, weight)
                       /\ RLe(base, weighted)
                       /\ RLe(weighted, One)
                /\ RLt(<<2, 1>>, weight) =>
                       /\ RLe(base, weighted)
                       /\ weighted = RMin(One, DiminishingBoost(base, weight))
                /\ (RLe(Zero, weight) /\ RLt(weight, One)) => weighted = RMul(base, weight)
                /\ RLt(weight, Zero) => weighted = Zero
                /\ weight = One => weighted = base
                /\ log[p[1]].out[p[2]].confidence_score =
                       RMax(Zero, RMin(One, _apply_confidence_adjustments(claim,
                                                Clamped(StatedWeighting(base, weight)))))

\* a numerical claim with one source aligned 0.5 was scored under the weight
\* 10: the boost 0.5 + 9 x 0.25 is 2.75 and the weighting returned 1.0
C26_Witness ==
    /\ pc = "scored"
    /\ \E i \in DOMAIN log[1].in :
          /\ log[1].in[i].type = "numerical"
          /\ Len(log[1].in[i].sources) = 1
          /\ TableWeight(log[1].in[i]) = <<10, 1>>
          /\ _calculate_base_confidence(log[1].in[i]) = <<1, 2>>
          /\ DiminishingBoost(<<1, 2>>, <<10, 1>>) = <<11, 4>>
          /\ _apply_claim_type_weighting(cfg, log[1].in[i], <<1, 2>>) = One

\* C27: the rule-based strategy gives each claim the span of the sentence
\* occurrence it was produced from: the claims of a run come in strictly
\* increasing start order and their spans are pairwise disjoint, also when
\* the text of a sentence occurs more than once in the response or inside an
\* earlier sentence.
C27_RuleBasedSpansInOrder ==
    (pc = "extracted" /\ ~nlp.loaded) =>
        \A i, j \in DOMAIN claims :
            i < j => /\ claims[i].start_idx < claims[j].start_idx
                     /\ claims[i].end_idx <= claims[j].start_idx

(***************************************************************************)
(* Specification SpecRerun: map_to_sources and score_claims called again,  *)
(* in any order, on the same claim objects and the same store.  The claims *)
(* may come with evidence, a note and a confidence of an earlier run        *)
(* against another store.                                                  *)
(***************************************************************************)
MaxStageCalls  == 4   \* calls of the two stages in a run
MaxRerunClaims == 2   \* claims in the list

\* the evidence, note and confidence left on a claim by an earlier run
StaleSource == SourceReference("z", "doc9", <<"o","l","d">>, <<9, 10>>)
Stale(claim) ==
    [claim EXCEPT !.sources = <<StaleSource>>,
                  !.verification_notes = "Found 1 supporting sources",
                  !.confidence_score = <<9, 10>>]

RerunClaimSamples ==
    {c \in MapClaimSamples : c.type \in {"entity", "numerical"}}
        \cup {Stale(c) : c \in {d \in MapClaimSamples : d.type \in {"other", "temporal"}}}

RerunInputs ==
    { [i \in DOMAIN s |-> [s[i] EXCEPT !.id = i]] :
        s \in SeqsUpTo(RerunClaimSamples, MaxRerunClaims) }

ChunkOf(id) == CHOOSE ch \in ChunkSamples : ch.id = id
RerunStores == {<<>>, <<ChunkOf("b")>>, <<ChunkOf("a"), ChunkOf("d"), ChunkOf("c")>>}

RerunConfigs ==
    {[DefaultConfig EXCEPT !.min_alignment_score = <<1, 2>>],
     [DefaultConfig EXCEPT !.min_alignment_score = <<1, 2>>, !.use_semantic_search = FALSE,
                           !.max_sources_per_claim = 1, !.unsupported_claim_score = <<1, 5>>]}

InitRerun ==
    /\ pc = "constructed"
    /\ cfg \in RerunConfigs
    /\ nlp = None
    /\ text = <<>>
    /\ store \in RerunStores
    /\ claims \in RerunInputs
    /\ log = <<>>
    /\ interventions = <<>>
    /\ uuids = Len(claims)

\* mapper.map_to_sources(claims, store), whatever was called before
MapAgain ==
    /\ Len(log) < MaxStageCalls
    /\ claims' = map_to_sources(cfg, claims, store)
    /\ log' = Append(log, [op |-> "map_to_sources", in |-> claims, out |-> claims'])
    /\ pc' = "mapped"
    /\ UNCHANGED <<cfg, nlp, text, store, uuids, interventions>>

\* scorer.score_claims(claims), whatever was called before
ScoreAgain ==
    /\ Len(log) < MaxStageCalls
    /\ claims' = score_claims(cfg, claims)
    /\ log' = Append(log, [op |-> "score_claims", in |-> claims, out |-> claims'])
    /\ pc' = "scored"
    /\ UNCHANGED <<cfg, nlp, text, store, uuids, interventions>>

NextRerun == MapAgain \/ ScoreAgain

SpecRerun == InitRerun /\ [][NextRerun]_vars

\* C28: map_to_sources applied again to claims that were mapped against the
\* same store gives every claim the evidence list and the note it had, and
\* score_claims applied again to claims that were scored with the same
\* evidence gives every claim the confidence it had: neither stage reads the
\* values it overwrites.
C28_StagesIdempotent ==
    \A j, k \in DOMAIN log :
        (j < k /\ log[j].op = log[k].op) =>
            \A n \in DOMAIN log[k].out :
                /\ log[k].op = "map_to_sources" =>
                       /\ log[k].out[n].sources = log[j].out[n].sources
                       /\ log[k].out[n].verification_notes = log[j].out[n].verification_notes
                /\ (log[k].op = "score_claims" /\ log[k].in[n].sources = log[j].in[n].sources) =>
                       log[k].out[n].confidence_score = log[j].out[n].confidence_score

\* a claim that came with evidence of another store and was then mapped,
\* scored, mapped again and scored again: the first mapping replaced the old
\* evidence, and the second mapping and scoring changed nothing
C28_Witness ==
    /\ Len(log) = 4
    /\ Ops = <<"map_to_sources", "score_claims", "map_to_sources", "score_claims">>
    /\ \E n \in DOMAIN claims :
          /\ log[1].in[n].sources = <<StaleSource>>
          /\ log[1].out[n].sources # <<>>
          /\ log[1].out[n].sources # <<StaleSource>>
          /\ log[2].out[n].confidence_score # <<9, 10>>
          /\ log[3].out[n] = log[3].in[n]
          /\ log[4].out[n] = log[4].in[n]

\* the fields of a claim that the stages do not assign
Kept(claim) ==
    [id |-> claim.id, text |-> claim.text, type |-> claim.type,
     start_idx |-> claim.start_idx, end_idx |-> claim.end_idx, entities |-> claim.entities]

\* C29: map_to_sources changes only the sources and the verification_notes of
\* each claim and score_claims only its confidence_score: ids, texts, types,
\* offsets and entities, the length and the order of the claim list and the
\* contents and the order of the fragment store are as they were.
C29_StagesFrame ==
    /\ [](\A k \in DOMAIN log :
            /\ Len(log[k].out) = Len(log[k].in)
            /\ \A n \in DOMAIN log[k].in :
                  /\ Kept(log[k].out[n]) = Kept(log[k].in[n])
                  /\ log[k].op = "map_to_sources" =>
                         log[k].out[n].confidence_score = log[k].in[n].confidence_score
                  /\ log[k].op = "score_claims" =>
                         /\ log[k].out[n].sources = log[k].in[n].sources
                         /\ log[k].out[n].verification_notes = log[k].in[n].verification_notes)
    /\ [][store' = store]_vars

\* two claims, the first without and the second with evidence in a store of
\* three fragments, were mapped and scored: the list has both in their order
C29_Witness ==
    /\ Len(store) = 3
    /\ Len(log) = 2
    /\ Ops = <<"map_to_sources", "score_claims">>
    /\ Len(claims) = 2
    /\ claims[1].id = 1 /\ claims[2].id = 2
    /\ claims[1].sources = <<>>
    /\ claims[2].sources # <<>>
    /\ claims[2].entities # <<>>
    /\ claims[2].confidence_score # log[1].in[2].confidence_score
====
